---- MODULE Spec2Model ----
(***************************************************************************)
(* Sequential model-based optimisation (EGO) of the notebook               *)
(* "7 - Surrogate based optimization/GP Regression.ipynb".                 *)
(*                                                                         *)
(* The loop is the EGO algorithm of the notebook (the pseudo-code of the   *)
(* section "Efficient Global Optimization"), run on the variables the      *)
(* notebook's cells set up (x_data, y_data, n_iter, gpr) and inspected by  *)
(* the result cell.  The input domain [0, 25] is a grid 0..MaxX, observed  *)
(* and predicted values take the levels of Vals, and the standard normal   *)
(* cdf / pdf are tabulated in fixed point (four decimals).                 *)
(***************************************************************************)
EXTENDS Integers, Sequences, FiniteSets

VARIABLES
    pc,        \* state of the loop: INITIALIZED, FITTING, ACQUIRING, EVALUATING, TERMINATED
    x_data,    \* X: the input points of the design of experiments
    y_data,    \* Y: the observed values of the design of experiments
    n_iter,    \* iteration budget
    i,         \* iteration counter
    gpr,       \* the surrogate: training set, predicted mean and standard deviation
    f_min,     \* minimum observed value, as last computed by the loop
    x_next,    \* the point selected by the last ACQUIRING step
    seedLen,   \* number of points of the seed design (history)
    n_eval,    \* number of calls of the objective F made by the loop (history)
    opt_all,   \* multi-start: the optimizer's results, one per initial guess
    opt,       \* multi-start: the result kept
    theta_et,  \* multi-start: the hyperparameter kept
    n_opt,     \* multi-start: number of optimizations run per initial guess (history)
    y_data_con, \* SEGO: the observed values of the constraint
    gpr_con,   \* SEGO: the surrogate of the constraint (predicted mean)
    ego_run,   \* the design and the surrogate object an earlier run left (history)
    n_class,   \* naive Bayes: number of records of each class
    lik,       \* naive Bayes: density of each feature value of the input, per class
    score,     \* naive Bayes: score of each class (product)
    proba,     \* naive Bayes: normalised score of each class
    log_score, \* naive Bayes: log score of each class
    xtest,     \* naive Bayes: the input scored on the notebook's data set
    prediction, \* naive Bayes: the class the library's classifier predicts
    crit,      \* acquisition functions: the last call and the value it returned
    records,   \* training: the labelled records
    model,     \* training: the records and the prior of each class
    digits,    \* split: the samples (data) and their labels (target)
    split_n,   \* split: the number of training samples asked for
    Xtrain,    \* split: the training samples
    ytrain,    \* split: the training labels
    Xtest,     \* split: the test samples
    ytest,     \* split: the test labels
    points,    \* covariance: the points the covariance matrix is built on
    theta,     \* covariance: the length scale of the kernel
    sig,       \* covariance: the standard deviation of the kernel
    K,         \* covariance: the matrix cov_matrix returns
    K_star,    \* covariance: the vectors cov_vect returns, one per point
    K_inv,     \* prediction: the inverse of the covariance matrix of the design
    Y_GP,      \* prediction: the mean and the variance predicted at each point
    spam_nbc,  \* count-based classifier: the counts of the fitted model
    spam_x,    \* count-based classifier: the input scored
    spam_score \* count-based classifier: the score and the posterior of each class

\* f_min and x_next before a cell assigns them: no point of the domain and no
\* observed value
Unset == -1

\* the variables of the multi-start hyperparameter optimisation
msVars == <<opt_all, opt, theta_et, n_opt>>

\* the variables of the constrained loop (SEGO) that the EGO loop does not have
segoVars == <<y_data_con, gpr_con, ego_run>>

\* the variables of the naive Bayes scorer
nbVars == <<n_class, lik, score, proba, log_score, xtest, prediction>>

\* the variables of the calls of the acquisition functions
critVars == <<crit>>

\* the variables of the training by label
trainVars == <<records, model>>

\* the variables of shuffle_and_split
splitVars == <<digits, split_n, Xtrain, ytrain, Xtest, ytest>>

\* the variables of the covariance functions and of the predictor
covVars == <<points, theta, sig, K, K_star, K_inv, Y_GP>>

\* the variables of the count-based classifier
mnbVars == <<spam_nbc, spam_x, spam_score>>

\* the variables of the cells outside the loops and the Gaussian scorer
mlVars == <<critVars, trainVars, splitVars, covVars, mnbVars>>

\* the variables the EGO loop does not touch
otherVars == <<msVars, segoVars, nbVars, mlVars>>

vars == <<pc, x_data, y_data, n_iter, i, gpr, f_min, x_next, seedLen, n_eval, otherVars>>

(***************************************************************************)
(* Bounds of the model.                                                    *)
(***************************************************************************)
MaxX == 2
MaxIter == 2

Domain == 0..MaxX
\* levels of the observed and predicted values
Vals == {0, 1}
SeedLens == {1, 2}
\* levels of the predicted standard deviation (0: no uncertainty)
Sigmas == {0, 1}

Range(s) == {s[k] : k \in 1..Len(s)}

MinOf(S) == CHOOSE m \in S : \A v \in S : m <= v

\* the minimum of a design that misses the most recent observation
FMinStale(Ys) ==
    IF Len(Ys) > 1 THEN MinOf(Range(SubSeq(Ys, 1, Len(Ys) - 1))) ELSE MinOf(Range(Ys))

(***************************************************************************)
(* f_min = min Y                                                           *)
(***************************************************************************)
FMin(Ys) == MinOf(Range(Ys))

(***************************************************************************)
(* The standard normal distribution (scipy.stats.norm), in fixed point:    *)
(* the argument is k = 2z (half steps of z), the value is scaled by 10^4.  *)
(***************************************************************************)
CdfTab == <<5000, 6915, 8413, 9332, 9772, 9938, 9987, 9998, 10000>>
PdfTab == <<3989, 3521, 2420, 1295, 540, 175, 44, 9, 1>>

Abs(k) == IF k < 0 THEN -k ELSE k

NormCdf(k) ==
    IF k >= Len(CdfTab) THEN 10000
    ELSE IF k <= -Len(CdfTab) THEN 0
    ELSE IF k >= 0 THEN CdfTab[k + 1]
    ELSE 10000 - CdfTab[(-k) + 1]

NormPdf(k) == IF Abs(k) >= Len(PdfTab) THEN 0 ELSE PdfTab[Abs(k) + 1]

(***************************************************************************)
(* Expected Improvement, scaled by 10^4:                                   *)
(*   EI = (f_min - mu) Phi(z) + sigma phi(z),  z = (f_min - mu) / sigma,   *)
(* and 0 where sigma = 0.                                                  *)
(***************************************************************************)
\* The closed form evaluated as numpy evaluates it without the sigma = 0 case:
\* z = +inf gives f_min - mu, z = -inf gives 0, and 0/0 gives nan (here -1).
EIUnguarded(fmin, mu, sigma) ==
    LET d == fmin - mu
    IN  IF sigma = 0
        THEN (IF d > 0 THEN d * 10000 ELSE IF d < 0 THEN 0 ELSE -1)
        ELSE d * NormCdf((2 * d) \div sigma) + sigma * NormPdf((2 * d) \div sigma)

EI(fmin, mu, sigma) ==
    LET d == fmin - mu
    IN  IF sigma = 0
        THEN 0
        ELSE d * NormCdf((2 * d) \div sigma) + sigma * NormPdf((2 * d) \div sigma)

(***************************************************************************)
(* The acquisition function over the whole domain, for surrogate mod.      *)
(***************************************************************************)
Acquisition(mod, fmin) == [x \in Domain |-> EI(fmin, mod.mu[x], mod.sigma[x])]

\* arg min instead of arg max
ArgMin(a) == {x \in Domain : \A z \in Domain : a[x] <= a[z]}

(***************************************************************************)
(* x_{i+1} = arg max EI(mod, f_min): the points where a is maximal.        *)
(***************************************************************************)
ArgMax(a) == {x \in Domain : \A z \in Domain : a[z] <= a[x]}

(***************************************************************************)
(* The objective F is a function: a point probed before gives the same     *)
(* value again; a new point gives any value.                               *)
(***************************************************************************)
ObservedAt(Xs, Ys, x) == Ys[CHOOSE k \in 1..Len(Xs) : Xs[k] = x]

fun(Xs, Ys, x) == IF x \in Range(Xs) THEN {ObservedAt(Xs, Ys, x)} ELSE Vals

(***************************************************************************)
(* mod = model(X, Y): the surrogates a training on (Xs, Ys) can produce.   *)
(* The surrogate keeps its training set; it interpolates the data (mean    *)
(* y_i and standard deviation 0 at x_i); elsewhere mean and standard       *)
(* deviation are what the trained hyperparameters make them, a standard    *)
(* deviation of 0 included (a variance clamped to 0).                      *)
(***************************************************************************)
Surrogates(Xs, Ys) ==
    LET Free == Domain \ Range(Xs)
    IN  { [X |-> Xs, Y |-> Ys,
           mu |-> [x \in Domain |-> IF x \in Free THEN m[x] ELSE ObservedAt(Xs, Ys, x)],
           sigma |-> [x \in Domain |-> IF x \in Free THEN s[x] ELSE 0]] :
          m \in [Free -> Vals], s \in [Free -> Sigmas] }

(***************************************************************************)
(* Multi-start optimisation of the hyperparameter theta (likelihood).      *)
(* theta_start = np.linspace(1e-6, 25, 5): five initial guesses.           *)
(***************************************************************************)
NStarts == 5

\* levels of the objective value an optimization reports (opt_i['fun'])
ObjVals == {0, 1, 2}
\* the hyperparameter values an optimization ends at (opt_i['x'])
Thetas == {1, 2}

\* the results scipy.optimize.minimize can return: success flag, objective, theta
OptimizeResults == [success : BOOLEAN, fun : ObjVals, x : Thetas]

\* the state of the notebook before the multi-start cells are run
MSNotRun ==
    /\ opt_all = <<>>
    /\ opt = "unset"
    /\ theta_et = "unset"
    /\ n_opt = [k \in 1..NStarts |-> 0]

\* the naive Bayes notebook not run
NBNotRun ==
    /\ n_class = <<>>
    /\ lik = <<>>
    /\ score = <<>>
    /\ proba = <<>>
    /\ log_score = <<>>
    /\ xtest = <<>>
    /\ prediction = "none"

\* no acquisition function called
CritNotRun == crit = [fn |-> "none", point |-> Unset, value |-> 0]

\* no training by label run
TrainNotRun ==
    /\ records = <<>>
    /\ model = <<>>

\* shuffle_and_split not called
SplitNotRun ==
    /\ digits = <<>>
    /\ split_n = 0
    /\ Xtrain = <<>>
    /\ ytrain = <<>>
    /\ Xtest = <<>>
    /\ ytest = <<>>

\* the covariance functions and the predictor not called
CovNotRun ==
    /\ points = <<>>
    /\ theta = 0
    /\ sig = 0
    /\ K = <<>>
    /\ K_star = <<>>
    /\ K_inv = <<>>
    /\ Y_GP = <<>>

\* the count-based classifier not fitted
MnbNotRun ==
    /\ spam_nbc = <<>>
    /\ spam_x = <<>>
    /\ spam_score = <<>>

\* the cells outside the loops and the Gaussian scorer not run
MLNotRun ==
    /\ CritNotRun
    /\ TrainNotRun
    /\ SplitNotRun
    /\ CovNotRun
    /\ MnbNotRun

\* the state of the notebook before the cells of the constrained loop are run
SEGONotRun ==
    /\ y_data_con = <<>>
    /\ gpr_con = "none"
    /\ ego_run = "none"

(***************************************************************************)
(* Seed designs: non-empty, pairwise distinct points (given in increasing   *)
(* order, as [0, 7, 25] is), any observed values.                          *)
(***************************************************************************)
Distinct(Xs) == \A a, b \in 1..Len(Xs) : a # b => Xs[a] # Xs[b]

SeedPoints ==
    {Xs \in UNION {[1..n -> Domain] : n \in SeedLens} :
        \A a, b \in 1..Len(Xs) : a < b => Xs[a] < Xs[b]}

(***************************************************************************)
(* The set-up cell: seed design, iteration budget, surrogate trained on    *)
(* the seed.                                                               *)
(***************************************************************************)
Init ==
    /\ pc = "INITIALIZED"
    /\ x_data \in SeedPoints
    /\ y_data \in [1..Len(x_data) -> Vals]
    /\ n_iter \in 0..MaxIter
    /\ i = 0
    /\ gpr \in Surrogates(x_data, y_data)
    /\ f_min = Unset
    /\ x_next = Unset
    /\ seedLen = Len(x_data)
    /\ n_eval = 0
    /\ MSNotRun
    /\ MLNotRun
    /\ SEGONotRun
    /\ NBNotRun

\* the loop runs one iteration too many
LoopCondInclusive == i <= n_iter

\* the loop also stops when the last observation brought no improvement
LoopCondOrConverged ==
    /\ i < n_iter
    /\ ~(/\ Len(y_data) > seedLen
         /\ y_data[Len(y_data)] >= FMinStale(y_data))

(***************************************************************************)
(* For (i = 0 : n_iter): n_iter iterations.                                *)
(***************************************************************************)
LoopCond == i < n_iter

\* X = [X, x]: the new element replaces the last one instead of following it
Overwrite(s, e) == [s EXCEPT ![Len(s)] = e]

\* X = [x, X]: the new element is put in front
Prepend(s, e) == <<e>> \o s

(***************************************************************************)
(* X = [X, x_{i+1}],  Y = [Y, y_{i+1}]                                      *)
(***************************************************************************)
Extend(s, e) == Append(s, e)

(***************************************************************************)
(* mod = model(X, Y)                                                       *)
(***************************************************************************)
Fit ==
    /\ pc \in {"INITIALIZED", "EVALUATING"}
    /\ LoopCond
    /\ gpr' \in Surrogates(x_data, y_data)
    /\ pc' = "FITTING"
    /\ UNCHANGED <<x_data, y_data, n_iter, i, f_min, x_next, seedLen>>
    /\ UNCHANGED <<n_eval, otherVars>>

\* the next selection also starts right after an evaluation, the model not rebuilt
AcquireWithoutRefit ==
    /\ \/ pc = "FITTING"
       \/ pc = "EVALUATING" /\ LoopCond
    /\ f_min' = FMin(y_data)
    /\ x_next' \in ArgMax(Acquisition(gpr, f_min'))
    /\ pc' = "ACQUIRING"
    /\ UNCHANGED <<x_data, y_data, n_iter, i, gpr, seedLen>>
    /\ UNCHANGED <<n_eval, otherVars>>

(***************************************************************************)
(* f_min = min Y;  x_{i+1} = arg max EI(mod, f_min)                        *)
(***************************************************************************)
Acquire ==
    /\ pc = "FITTING"
    /\ f_min' = FMin(y_data)
    /\ x_next' \in ArgMax(Acquisition(gpr, f_min'))
    /\ pc' = "ACQUIRING"
    /\ UNCHANGED <<x_data, y_data, n_iter, i, gpr, seedLen>>
    /\ UNCHANGED <<n_eval, otherVars>>

\* the objective is evaluated a second time when the selected point is one
\* of the design already (no improvement expected anywhere)
EvaluateAgainOnEdgeCase ==
    /\ pc = "ACQUIRING"
    /\ \E y \in fun(x_data, y_data, x_next) :
          /\ x_data' = Extend(x_data, x_next)
          /\ y_data' = Extend(y_data, y)
    /\ n_eval' = n_eval + (IF x_next \in Range(x_data) THEN 2 ELSE 1)
    /\ i' = i + 1
    /\ pc' = "EVALUATING"
    /\ UNCHANGED <<n_iter, gpr, f_min, x_next, seedLen>>
    /\ UNCHANGED otherVars

(***************************************************************************)
(* y_{i+1} = F(x_{i+1});  X = [X, x_{i+1}];  Y = [Y, y_{i+1}];  i = i + 1   *)
(***************************************************************************)
Evaluate ==
    /\ pc = "ACQUIRING"
    /\ \E y \in fun(x_data, y_data, x_next) :
          /\ x_data' = Extend(x_data, x_next)
          /\ y_data' = Extend(y_data, y)
    /\ n_eval' = n_eval + 1
    /\ i' = i + 1
    /\ pc' = "EVALUATING"
    /\ UNCHANGED <<n_iter, gpr, f_min, x_next, seedLen>>
    /\ UNCHANGED otherVars

(***************************************************************************)
(* After the loop: f_min = min Y; Return f_min.                            *)
(***************************************************************************)
Terminate ==
    /\ pc \in {"INITIALIZED", "EVALUATING"}
    /\ ~LoopCond
    /\ f_min' = FMin(y_data)
    /\ pc' = "TERMINATED"
    /\ UNCHANGED <<x_data, y_data, n_iter, i, gpr, x_next, seedLen>>
    /\ UNCHANGED <<n_eval, otherVars>>

Next == Fit \/ Acquire \/ Evaluate \/ Terminate

Spec == Init /\ [][Next]_vars

\* The cells run to completion: a step that can be taken is taken.
FairSpec == Spec /\ WF_vars(Next)

(***************************************************************************)
(*          Multi-start optimisation of the hyperparameter theta           *)
(***************************************************************************)

\* The variables of the optimisation loop, before its set-up cell is run.
\* (The data of the likelihood are inside the optimizer, whose results are
\* the inputs here.)
EGONotRun ==
    /\ x_data = <<>>
    /\ y_data = <<>>
    /\ n_iter = 0
    /\ i = 0
    /\ gpr = "none"
    /\ f_min = Unset
    /\ x_next = Unset
    /\ seedLen = 0
    /\ n_eval = 0

egoVars == <<x_data, y_data, n_iter, i, gpr, f_min, x_next, seedLen, n_eval>>

InitMS ==
    /\ pc = "OPTIMIZING"
    /\ MSNotRun
    /\ MLNotRun
    /\ EGONotRun
    /\ SEGONotRun
    /\ NBNotRun

\* every run is kept as a candidate, the success flags not looked at
opt_all_runs(all) == all

\* the runs that succeeded, or every run when none did
opt_success_or_all(all) ==
    IF \E k \in 1..Len(all) : all[k].success
    THEN SelectSeq(all, LAMBDA o : o.success)
    ELSE all

(***************************************************************************)
(* opt_success = opt_all[[opt_i['success'] for opt_i in opt_all]]          *)
(* (boolean mask: the successful runs, in their order)                     *)
(***************************************************************************)
opt_success(all) == SelectSeq(all, LAMBDA o : o.success)

(***************************************************************************)
(* obj_success = np.array([opt_i['fun'] for opt_i in opt_success])         *)
(***************************************************************************)
obj_success(succ) == [k \in 1..Len(succ) |-> succ[k].fun]

(***************************************************************************)
(* ind_min = np.argmin(obj_success): the first index of the minimum.       *)
(***************************************************************************)
ind_min(obj) ==
    CHOOSE k \in 1..Len(obj) :
        \A j \in 1..Len(obj) :
            (obj[k] <= obj[j]) /\ (j < k => obj[k] < obj[j])

(***************************************************************************)
(* One optimization of the likelihood from the next initial guess of       *)
(* theta_start; its result joins opt_all.                                  *)
(***************************************************************************)
Optimize ==
    /\ pc = "OPTIMIZING"
    /\ Len(opt_all) < NStarts
    /\ \E res \in OptimizeResults :
          opt_all' = Append(opt_all, res)
    /\ n_opt' = [n_opt EXCEPT ![Len(opt_all) + 1] = @ + 1]
    /\ UNCHANGED <<pc, opt, theta_et, egoVars, segoVars, nbVars, mlVars>>

(***************************************************************************)
(* The selection cell.  np.argmin of an empty array raises ValueError:     *)
(* when no run succeeded the cell stops there, opt and theta_et are not    *)
(* assigned.                                                               *)
(***************************************************************************)
Select ==
    /\ pc = "OPTIMIZING"
    /\ Len(opt_all) = NStarts
    /\ LET succ == opt_success(opt_all)
       IN  IF Len(succ) = 0
           THEN /\ pc' = "ERROR"
                /\ UNCHANGED <<opt, theta_et>>
           ELSE /\ opt' = succ[ind_min(obj_success(succ))]
                /\ theta_et' = opt'.x
                /\ pc' = "SELECTED"
    /\ UNCHANGED <<opt_all, n_opt, egoVars, segoVars, nbVars, mlVars>>

NextMS == Optimize \/ Select

SpecMS == InitMS /\ [][NextMS]_vars

(***************************************************************************)
(* One run of either procedure: the multi-start cells or the EGO loop.     *)
(***************************************************************************)
InitRun == Init \/ InitMS

NextRun == Next \/ NextMS

SpecRun == InitRun /\ [][NextRun]_vars

(***************************************************************************)
(*        The set-up cell, given any seed (the empty one included)         *)
(***************************************************************************)

\* the seeds the cell can be given: those of SeedPoints, and no point at all
SeedInputs == SeedPoints \cup {<<>>}

\* x_data = ...; y_data = fun(x_data); n_iter = ...: the cell up to the
\* construction of the surrogate.
InitSetup ==
    /\ pc = "SEEDED"
    /\ x_data \in SeedInputs
    /\ y_data \in [1..Len(x_data) -> Vals]
    /\ n_iter \in 0..MaxIter
    /\ i = 0
    /\ gpr = "none"
    /\ f_min = Unset
    /\ x_next = Unset
    /\ seedLen = Len(x_data)
    /\ n_eval = 0
    /\ MSNotRun
    /\ MLNotRun
    /\ SEGONotRun
    /\ NBNotRun

(***************************************************************************)
(* gpr = KRG(...); gpr.set_training_values(x_data, y_data); gpr.train()    *)
(* The cell does not look at the seed.  What the library does with an      *)
(* empty training set is not the notebook's: either train() raises, or it  *)
(* returns a surrogate that no data constrain.                             *)
(***************************************************************************)
TrainSeed ==
    /\ pc = "SEEDED"
    /\ \/ /\ Len(x_data) = 0
          /\ pc' = "TRAIN_ERROR"
          /\ gpr' = gpr
       \/ /\ gpr' \in Surrogates(x_data, y_data)
          /\ pc' = "INITIALIZED"
    /\ UNCHANGED <<x_data, y_data, n_iter, i, f_min, x_next, seedLen>>
    /\ UNCHANGED <<n_eval, otherVars>>

NextSetup == TrainSeed

SpecSetup == InitSetup /\ [][NextSetup]_vars

(***************************************************************************)
(*            Constrained loop (SEGO): objective and constraint            *)
(***************************************************************************)

\* "An inequality constraint is added: x < 11": the limit, on the grid.
XLim == 1

\* the constraint function: g(x) >= 0 where the constraint holds
g(x) == XLim - x

\* levels of the constraint surrogate's predicted mean away from the data:
\* predicted infeasible, predicted feasible (at the data it is g, 0 included)
ConVals == {-1, 1}

(***************************************************************************)
(* The constraint surrogates a training on (Xs, Gs) can produce: the       *)
(* predicted mean interpolates the observed constraint values.             *)
(***************************************************************************)
ConSurrogates(Xs, Gs) ==
    LET Free == Domain \ Range(Xs)
    IN  { [X |-> Xs, Y |-> Gs,
           mu |-> [x \in Domain |-> IF x \in Free THEN m[x] ELSE ObservedAt(Xs, Gs, x)]] :
          m \in [Free -> ConVals] }

\* no feasibility criterion: the whole domain
FeasibleAll(mod_con) == Domain

(***************************************************************************)
(* Omega_g = {x, alpha_g(x) >= 0}, alpha_g the posterior mean of the GP    *)
(* of the constraint.                                                      *)
(***************************************************************************)
Feasible(mod_con) == {x \in Domain : mod_con.mu[x] >= 0}

(***************************************************************************)
(* x_next = arg max alpha(x) with x in Omega_g                             *)
(***************************************************************************)
ArgMaxOver(S, a) == {x \in S : \A z \in S : a[z] <= a[x]}

(***************************************************************************)
(* The constrained loop is run after the EGO loop: its cells find the      *)
(* names as an EGO run left them.  Here: the run with budget 1 from the    *)
(* seed [1] with value 0 and a surrogate predicting mean 0 and standard    *)
(* deviation 1 away from the seed, which selected the point 0.             *)
(***************************************************************************)
EgoLeftGpr ==
    [X |-> <<1>>, Y |-> <<0>>,
     mu |-> [x \in Domain |-> 0],
     sigma |-> [x \in Domain |-> IF x = 1 THEN 0 ELSE 1]]

InitSEGO ==
    /\ pc = "TERMINATED"
    /\ x_data = <<1, 0>>
    /\ y_data \in {<<0, w>> : w \in Vals}
    /\ n_iter = 1
    /\ i = 1
    /\ gpr = EgoLeftGpr
    /\ f_min = FMin(y_data)
    /\ x_next = 0
    /\ seedLen = 1
    /\ n_eval = 1
    /\ y_data_con = <<>>
    /\ gpr_con = "none"
    /\ ego_run = [x_data |-> x_data, y_data |-> y_data, gpr |-> gpr]
    /\ MSNotRun
    /\ MLNotRun
    /\ NBNotRun

\* The set-up cell without its first lines and without 'gpr = KRG(...)': the
\* design is the one the earlier run left, and the earlier run's surrogate
\* object is the one trained again.
SegoSetUpOnLeftRun ==
    /\ pc = "TERMINATED"
    /\ Len(y_data_con) = 0
    /\ UNCHANGED <<x_data, y_data>>
    /\ y_data_con' = [k \in 1..Len(x_data) |-> g(x_data[k])]
    /\ n_iter' \in 0..MaxIter
    /\ gpr' \in Surrogates(x_data, y_data)
    /\ gpr_con' \in ConSurrogates(x_data, y_data_con')
    /\ ego_run' = [ego_run EXCEPT !.gpr = gpr']
    /\ i' = 0
    /\ seedLen' = Len(x_data)
    /\ n_eval' = 0
    /\ pc' = "INITIALIZED"
    /\ UNCHANGED <<f_min, x_next, msVars, nbVars, mlVars>>

\* The set-up cell with the constraint evaluated on the design the earlier run
\* left (y_data_con = g(x_data) run before x_data is assigned), and the
\* constraint surrogate trained on that design.
SegoSetUpConOnOldDesign ==
    /\ pc = "TERMINATED"
    /\ Len(y_data_con) = 0
    /\ x_data' \in SeedPoints
    /\ y_data' \in [1..Len(x_data') -> Vals]
    /\ y_data_con' = [k \in 1..Len(x_data) |-> g(x_data[k])]
    /\ n_iter' \in 0..MaxIter
    /\ gpr' \in Surrogates(x_data', y_data')
    /\ gpr_con' \in ConSurrogates(x_data, y_data_con')
    /\ ego_run' = ego_run
    /\ i' = 0
    /\ seedLen' = Len(x_data')
    /\ n_eval' = 0
    /\ pc' = "INITIALIZED"
    /\ UNCHANGED <<f_min, x_next, msVars, nbVars, mlVars>>

(***************************************************************************)
(* The SEGO set-up cell: a new seed array, the objective and constraint    *)
(* values of the seed, the iteration budget, and two new surrogate objects *)
(* (gpr = KRG(...), gpr_con = KRG(...)) trained on the seed.  The names    *)
(* are bound to the new objects; what the earlier run left is not written. *)
(* (The loop that follows counts its iterations from 0.)                   *)
(***************************************************************************)
SegoSetUp ==
    /\ pc = "TERMINATED"
    /\ Len(y_data_con) = 0
    /\ x_data' \in SeedPoints
    /\ y_data' \in [1..Len(x_data') -> Vals]
    /\ y_data_con' = [k \in 1..Len(x_data') |-> g(x_data'[k])]
    /\ n_iter' \in 0..MaxIter
    /\ gpr' \in Surrogates(x_data', y_data')
    /\ gpr_con' \in ConSurrogates(x_data', y_data_con')
    /\ ego_run' = ego_run
    /\ i' = 0
    /\ seedLen' = Len(x_data')
    /\ n_eval' = 0
    /\ pc' = "INITIALIZED"
    /\ UNCHANGED <<f_min, x_next, msVars, nbVars, mlVars>>

\* both surrogates are rebuilt on the current design
SegoFit ==
    /\ pc \in {"INITIALIZED", "EVALUATING"}
    /\ LoopCond
    /\ gpr' \in Surrogates(x_data, y_data)
    /\ gpr_con' \in ConSurrogates(x_data, y_data_con)
    /\ pc' = "FITTING"
    /\ UNCHANGED <<x_data, y_data, y_data_con, n_iter, i, f_min, x_next, seedLen>>
    /\ UNCHANGED <<n_eval, ego_run, msVars, nbVars, mlVars>>

\* the enrichment sub-problem; it has no solution when no point of the
\* domain is predicted feasible, and the loop then stops on the failure
SegoAcquire ==
    /\ pc = "FITTING"
    /\ f_min' = FMin(y_data)
    /\ IF Feasible(gpr_con) = {}
       THEN /\ pc' = "FAILED"
            /\ x_next' = x_next
       ELSE /\ x_next' \in ArgMaxOver(Feasible(gpr_con), Acquisition(gpr, f_min'))
            /\ pc' = "ACQUIRING"
    /\ UNCHANGED <<x_data, y_data, y_data_con, n_iter, i, gpr, gpr_con, seedLen>>
    /\ UNCHANGED <<n_eval, ego_run, msVars, nbVars, mlVars>>

\* objective and constraint are evaluated at the selected point
SegoEvaluate ==
    /\ pc = "ACQUIRING"
    /\ \E y \in fun(x_data, y_data, x_next) :
          /\ x_data' = Extend(x_data, x_next)
          /\ y_data' = Extend(y_data, y)
          /\ y_data_con' = Extend(y_data_con, g(x_next))
    /\ n_eval' = n_eval + 1
    /\ i' = i + 1
    /\ pc' = "EVALUATING"
    /\ UNCHANGED <<n_iter, gpr, gpr_con, f_min, x_next, seedLen>>
    /\ UNCHANGED <<ego_run, msVars, nbVars, mlVars>>

SegoTerminate ==
    /\ pc \in {"INITIALIZED", "EVALUATING"}
    /\ ~LoopCond
    /\ f_min' = FMin(y_data)
    /\ pc' = "TERMINATED"
    /\ UNCHANGED <<x_data, y_data, y_data_con, n_iter, i, gpr, gpr_con, x_next, seedLen>>
    /\ UNCHANGED <<n_eval, ego_run, msVars, nbVars, mlVars>>

NextSEGO == SegoSetUp \/ SegoFit \/ SegoAcquire \/ SegoEvaluate \/ SegoTerminate

SpecSEGO == InitSEGO /\ [][NextSEGO]_vars

(***************************************************************************)
(*                      Naive Bayes scorer (two classes)                   *)
(*                                                                         *)
(* Notebook "5 - Naive Bayes Classification/Naive Bayes                    *)
(* Classification_eleve.ipynb": the scores, normalised scores and log      *)
(* scores of the classes 0 (male) and 1 (female) for one input, from the   *)
(* class frequencies and the densities of the input's three features.      *)
(* Numbers are exact non-negative rationals <<numerator, denominator>>;    *)
(* a float result smaller than the smallest positive float is 0.           *)
(***************************************************************************)
Classes == {0, 1}

\* the features, in the order of the factors of the score
Features == <<"H", "W", "F">>

\* bound: number of records of a class
MaxCount == 3

RECURSIVE GCD(_, _)
GCD(a, b) == IF b = 0 THEN a ELSE GCD(b, a % b)

\* the rational n / d, in lowest terms
Q(n, d) == <<n \div GCD(n, d), d \div GCD(n, d)>>

RMul(a, b) == Q(a[1] * b[1], a[2] * b[2])
RAdd(a, b) == Q(a[1] * b[2] + b[1] * a[2], a[2] * b[2])
RDiv(a, b) == Q(a[1] * b[2], a[2] * b[1])
RLeq(a, b) == a[1] * b[2] <= b[1] * a[2]
RLess(a, b) == a[1] * b[2] < b[1] * a[2]

\* the smallest positive float, and the rounding of smaller results to 0
FloatMin == Q(1, 50)

Underflow(a) == IF RLess(a, FloatMin) THEN Q(0, 1) ELSE a

\* the densities a feature value can have under a class's distribution
\* (a Gaussian density is positive; the first is below the float range)
LikVals == {Q(1, 81), Q(1, 3), Q(1, 2), Q(2, 1)}

\* norm.pdf: the density as a float
norm_pdf(v) == Underflow(v)

\* pS0 = dataM.shape[0]/data.shape[0], pS1 = dataF.shape[0]/data.shape[0]
pS(n, c) == Q(n[c], n[0] + n[1])

\* float product
Times(a, b) == Underflow(RMul(a, b))

(***************************************************************************)
(* score_M = pS0 * norm.pdf(H,...) * norm.pdf(W,...) * norm.pdf(F,...)     *)
(* score_F = pS1 * norm.pdf(H,...) * norm.pdf(W,...) * norm.pdf(F,...)     *)
(***************************************************************************)
Score(n, l, c) ==
    Times(Times(Times(pS(n, c), norm_pdf(l[c]["H"])), norm_pdf(l[c]["W"])), norm_pdf(l[c]["F"]))

\* the score divided by the largest score
ProbaOverMax(s, c) ==
    IF s[0][1] + s[1][1] = 0 THEN "nan"
    ELSE RDiv(s[c], IF RLeq(s[0], s[1]) THEN s[1] ELSE s[0])

(***************************************************************************)
(* score_M/(score_M+score_F), score_F/(score_M+score_F); 0/0 is nan.       *)
(***************************************************************************)
Proba(s, c) ==
    IF s[0][1] + s[1][1] = 0 THEN "nan"
    ELSE RDiv(s[c], RAdd(s[0], s[1]))

(***************************************************************************)
(* Logarithms, exactly: the logarithm of a positive rational is the sum of *)
(* e_p * log(p) over the primes p, e_p the exponent of p in the rational;  *)
(* it is kept as the function p |-> e_p.                                   *)
(***************************************************************************)
Primes == {p \in 2..(2 * MaxCount) : \A q \in 2..(p - 1) : p % q # 0}

RECURSIVE Mult(_, _)
\* the exponent of the prime p in the positive integer n
Mult(n, p) == IF n % p = 0 THEN 1 + Mult(n \div p, p) ELSE 0

\* np.log
Log(a) == [p \in Primes |-> Mult(a[1], p) - Mult(a[2], p)]

\* sum of two logarithms
Plus(u, v) == [p \in Primes |-> u[p] + v[p]]

RECURSIVE Pow(_, _)
Pow(b, e) == IF e = 0 THEN 1 ELSE b * Pow(b, e - 1)

RECURSIVE ProdPow(_, _)
\* the product of p^e[p] over the primes p of S
ProdPow(S, e) ==
    IF S = {} THEN 1
    ELSE LET p == CHOOSE r \in S : TRUE
         IN  Pow(p, e[p]) * ProdPow(S \ {p}, e)

\* the rational a logarithm is the logarithm of
Exp(u) ==
    Q(ProdPow(Primes, [p \in Primes |-> IF u[p] > 0 THEN u[p] ELSE 0]),
      ProdPow(Primes, [p \in Primes |-> IF u[p] < 0 THEN -u[p] ELSE 0]))

\* order of two logarithms
LogLeq(u, v) == RLeq(Exp(u), Exp(v))

\* norm.logpdf: the logarithm of the density, computed without the density
norm_logpdf(v) == Log(v)

\* the log score without the logarithm of the prior
LogScoreNoPrior(n, l, c) ==
    Plus(Plus(norm_logpdf(l[c]["H"]), norm_logpdf(l[c]["W"])), norm_logpdf(l[c]["F"]))

(***************************************************************************)
(* log_score_M = np.log(pS0) + norm.logpdf(H,...) + norm.logpdf(W,...)     *)
(*               + norm.logpdf(F,...), and log_score_F likewise            *)
(***************************************************************************)
LogScore(n, l, c) ==
    Plus(Plus(Plus(Log(pS(n, c)), norm_logpdf(l[c]["H"])), norm_logpdf(l[c]["W"])),
         norm_logpdf(l[c]["F"]))

\* arg max over the classes: of scores (or normalised scores), of log scores
ArgMaxScore(s) == {c \in Classes : \A d \in Classes : RLeq(s[d], s[c])}

ArgMaxLogScore(ls) == {c \in Classes : \A d \in Classes : LogLeq(ls[d], ls[c])}

\* the classes' distributions estimated; an input given
InitNB ==
    /\ pc = "FITTED"
    /\ n_class \in [Classes -> 1..MaxCount]
    /\ lik \in [Classes -> [Range(Features) -> LikVals]]
    /\ score = <<>>
    /\ proba = <<>>
    /\ log_score = <<>>
    /\ xtest = <<>>
    /\ prediction = "none"
    /\ EGONotRun
    /\ MSNotRun
    /\ MLNotRun
    /\ SEGONotRun

\* the cell of the scores and normalised scores
Code1 ==
    /\ pc = "FITTED"
    /\ score' = [c \in Classes |-> Score(n_class, lik, c)]
    /\ proba' = [c \in Classes |-> Proba(score', c)]
    /\ pc' = "SCORED"
    /\ UNCHANGED <<n_class, lik, log_score, xtest, prediction, egoVars, msVars, segoVars, mlVars>>

\* the cell of the log scores
Code2 ==
    /\ pc = "SCORED"
    /\ log_score' = [c \in Classes |-> LogScore(n_class, lik, c)]
    /\ pc' = "LOG_SCORED"
    /\ UNCHANGED <<n_class, lik, score, proba, xtest, prediction, egoVars, msVars, segoVars, mlVars>>

NextNB == Code1 \/ Code2

SpecNB == InitNB /\ [][NextNB]_vars

(***************************************************************************)
(* The notebook's data set and its input, scored with the estimated        *)
(* Gaussian distributions.  Heights are kept in centimetres (the source    *)
(* has them in metres), weights in kilograms, foot sizes in centimetres.   *)
(* Logarithms are fixed-point numbers (Scale units per unit); scores are   *)
(* decimal floats <<m, e>> of value m * 10^e with a four-digit mantissa.   *)
(***************************************************************************)

\* the rows of sex_classif.csv: class, height, weight, foot size
data ==
    << <<0, 182, 82, 30>>, <<0, 180, 86, 28>>, <<0, 170, 77, 30>>,
       <<0, 180, 75, 25>>, <<1, 152, 45, 15>>, <<1, 165, 68, 20>>,
       <<1, 168, 59, 18>>, <<1, 175, 68, 23>>, <<1, 158, 49, 19>> >>

\* the column of each feature in a row
Col == [H |-> 2, W |-> 3, F |-> 4]

\* the number of units of a feature here per unit of the source
UnitsPer == [H |-> 100, W |-> 1, F |-> 1]

\* the input of the notebook: H = 1.81, W = 59, F = 21
NotebookInput == [H |-> 181, W |-> 59, F |-> 21]

\* the inputs considered
TestH == {160, 170, 181, 190}
TestW == {50, 59, 70, 80}
TestF == {18, 21, 25, 28}

\* dataM = data[data[:,0]==0], dataF = data[data[:,0]==1]
dataM == SelectSeq(data, LAMBDA r : r[1] = 0)
dataF == SelectSeq(data, LAMBDA r : r[1] = 1)

dataOf(c) == IF c = 0 THEN dataM ELSE dataF

RECURSIVE Sum1(_, _)
\* the sum of column k of the rows
Sum1(rows, k) == IF rows = <<>> THEN 0 ELSE Head(rows)[k] + Sum1(Tail(rows), k)

RECURSIVE Sum2(_, _)
\* the sum of the squares of column k of the rows
Sum2(rows, k) ==
    IF rows = <<>> THEN 0 ELSE Head(rows)[k] * Head(rows)[k] + Sum2(Tail(rows), k)

\* np.std squared, times the square of the number of rows
NVar(rows, k) == Len(rows) * Sum2(rows, k) - Sum1(rows, k) * Sum1(rows, k)

\* fixed point: units per unit of a logarithm
Scale == 100000

\* log(2), log(10) and log(2 pi)/2 in fixed point
LN2 == 69315
LN10 == 230259
HALF_LN_2PI == 91894

RECURSIVE Log2Floor(_)
Log2Floor(k) == IF k < 2 THEN 0 ELSE 1 + Log2Floor(k \div 2)

(***************************************************************************)
(* The logarithm of a positive integer k = m * 2^j, 1 <= m < 2:            *)
(* j log(2) + 2 (y + y^3/3 + y^5/5 + y^7/7 + y^9/9), y = (m - 1)/(m + 1).  *)
(***************************************************************************)
LnFix(k) ==
    LET j  == Log2Floor(k)
        p  == Pow(2, j)
        y  == ((k - p) * Scale) \div (k + p)
        y2 == (y * y) \div Scale
        y3 == (y * y2) \div Scale
        y5 == (y3 * y2) \div Scale
        y7 == (y5 * y2) \div Scale
        y9 == (y7 * y2) \div Scale
    IN  j * LN2 + 2 * (y + y3 \div 3 + y5 \div 5 + y7 \div 7 + y9 \div 9)

\* norm.logpdf without the distance of the value to the mean
norm_logpdf_at_mean(x, rows, f) ==
    LET V == NVar(rows, Col[f])
    IN  - HALF_LN_2PI
        - ((LnFix(V) - 2 * LnFix(Len(rows)) - 2 * LnFix(UnitsPer[f])) \div 2)

(***************************************************************************)
(* norm.logpdf(x, np.mean(rows[:,k]), np.std(rows[:,k])):                  *)
(* - log(2 pi)/2 - log(std^2)/2 - ((x - mean)/std)^2 / 2                   *)
(***************************************************************************)
norm_logpdf_fix(x, rows, f) ==
    LET n == Len(rows)
        V == NVar(rows, Col[f])
        d == n * x - Sum1(rows, Col[f])
    IN  - HALF_LN_2PI
        - ((LnFix(V) - 2 * LnFix(n) - 2 * LnFix(UnitsPer[f])) \div 2)
        - (((d * d * Scale) \div V) \div 2)

\* the mantissa of a float has four digits
Mant == 10000

RECURSIVE FNorm(_)
FNorm(a) ==
    IF a[1] = 0 THEN <<0, 0>>
    ELSE IF a[1] >= Mant THEN FNorm(<<a[1] \div 10, a[2] + 1>>)
    ELSE IF 10 * a[1] < Mant THEN FNorm(<<a[1] * 10, a[2] - 1>>)
    ELSE a

FMul(a, b) == FNorm(<<a[1] * b[1], a[2] + b[2]>>)

FDiv(a, b) == FNorm(<<(a[1] * Mant) \div b[1], a[2] - b[2] - 4>>)

FAdd(a, b) ==
    IF a[1] = 0 THEN b
    ELSE IF b[1] = 0 THEN a
    ELSE LET hi == IF a[2] >= b[2] THEN a ELSE b
             lo == IF a[2] >= b[2] THEN b ELSE a
             d  == hi[2] - lo[2]
         IN  IF d > 4 THEN hi ELSE FNorm(<<hi[1] + lo[1] \div Pow(10, d), hi[2]>>)

FLess(a, b) ==
    IF a[1] = 0 THEN b[1] > 0
    ELSE IF b[1] = 0 THEN FALSE
    ELSE a[2] < b[2] \/ (a[2] = b[2] /\ a[1] < b[1])

\* the float n / d
FRatio(n, d) == FNorm(<<(n * Mant) \div d, -4>>)

RECURSIVE ExpTerms(_, _, _)
\* the terms r^j / j! of the exponential series from the j-th, Mant units per unit
ExpTerms(term, r, j) ==
    IF j > 9 THEN 0
    ELSE LET t == (term * r) \div (Mant * j)
         IN  t + ExpTerms(t, r, j + 1)

(***************************************************************************)
(* The exponential of a fixed-point number t = q log(10) + a log(2) + r,   *)
(* 0 <= r < log(2): 10^q * 2^a * exp(r).                                   *)
(***************************************************************************)
FExp(t) ==
    LET q == t \div LN10
        u == t - q * LN10
        a == u \div LN2
        r == (u - a * LN2) \div 10
    IN  FNorm(<<Pow(2, a) * (Mant + ExpTerms(Mant, r, 1)), q - 4>>)

\* norm.pdf(x, np.mean(rows[:,k]), np.std(rows[:,k]))
norm_pdf_flt(x, rows, f) == FExp(norm_logpdf_fix(x, rows, f))

\* pS0 = dataM.shape[0]/data.shape[0], pS1 = dataF.shape[0]/data.shape[0]
pS_flt(c) == FRatio(Len(dataOf(c)), Len(data))

\* score_M (c = 0) and score_F (c = 1) of the input x
score_of(x, c) ==
    FMul(FMul(FMul(pS_flt(c), norm_pdf_flt(x["H"], dataOf(c), "H")),
              norm_pdf_flt(x["W"], dataOf(c), "W")),
         norm_pdf_flt(x["F"], dataOf(c), "F"))

\* score_M/(score_M+score_F), score_F/(score_M+score_F)
proba_of(s, c) ==
    IF s[0][1] = 0 /\ s[1][1] = 0 THEN "nan" ELSE FDiv(s[c], FAdd(s[0], s[1]))

\* log_score_M (c = 0) and log_score_F (c = 1) of the input x
log_score_of(x, c) ==
    LnFix(Len(dataOf(c))) - LnFix(Len(data))
    + norm_logpdf_fix(x["H"], dataOf(c), "H")
    + norm_logpdf_fix(x["W"], dataOf(c), "W")
    + norm_logpdf_fix(x["F"], dataOf(c), "F")

\* gnb.predict: the class the library printed for the notebook's input; the
\* notebook records no output of the library for another input
gnb_predict(x) == IF x = NotebookInput THEN {1} ELSE Classes

\* the data loaded and an input chosen
InitGNB ==
    /\ pc = "LOADED"
    /\ xtest \in [H : TestH, W : TestW, F : TestF]
    /\ n_class = [c \in Classes |-> Len(dataOf(c))]
    /\ lik = <<>>
    /\ score = <<>>
    /\ proba = <<>>
    /\ log_score = <<>>
    /\ prediction = "none"
    /\ EGONotRun
    /\ MSNotRun
    /\ MLNotRun
    /\ SEGONotRun

\* the cell of the scores and normalised scores, on the data set
ScoreCell ==
    /\ pc = "LOADED"
    /\ score' = [c \in Classes |-> score_of(xtest, c)]
    /\ proba' = [c \in Classes |-> proba_of(score', c)]
    /\ pc' = "SCORED"
    /\ UNCHANGED <<n_class, lik, log_score, xtest, prediction, egoVars, msVars, segoVars, mlVars>>

\* the cell of the log scores, on the data set
LogScoreCell ==
    /\ pc = "SCORED"
    /\ log_score' = [c \in Classes |-> log_score_of(xtest, c)]
    /\ pc' = "LOG_SCORED"
    /\ UNCHANGED <<n_class, lik, score, proba, xtest, prediction, egoVars, msVars, segoVars, mlVars>>

\* the cell that fits the library's GaussianNB and predicts the input's class
GnbCell ==
    /\ pc = "LOG_SCORED"
    /\ prediction' \in gnb_predict(xtest)
    /\ pc' = "PREDICTED"
    /\ UNCHANGED <<n_class, lik, score, proba, log_score, xtest, egoVars, msVars, segoVars, mlVars>>

NextGNB == ScoreCell \/ LogScoreCell \/ GnbCell

SpecGNB == InitGNB /\ [][NextGNB]_vars

(***************************************************************************)
(* The acquisition functions SBO and UCB, called on a trained surrogate.   *)
(* GP.predict(point) returns the predicted mean; with return_std=True it   *)
(* returns the pair of the predicted mean and standard deviation.          *)
(***************************************************************************)
predict(GP, point, return_std) ==
    IF return_std THEN <<GP.mu[point], GP.sigma[point]>> ELSE GP.mu[point]

SBO(GP, point) ==
    LET res == predict(GP, point, FALSE)
    IN  res

\* the bound with the standard deviation added
UCBPlus(GP, point) ==
    LET pred == predict(GP, point, TRUE)
    IN  pred[1] + 3 * pred[2]

UCB(GP, point) ==
    LET pred == predict(GP, point, TRUE)
    IN  pred[1] - 3 * pred[2]

\* a design and a surrogate trained on it, no acquisition function called
InitCrit ==
    /\ pc = "INITIALIZED"
    /\ x_data \in SeedPoints
    /\ y_data \in [1..Len(x_data) -> Vals]
    /\ n_iter \in 0..MaxIter
    /\ i = 0
    /\ gpr \in Surrogates(x_data, y_data)
    /\ f_min = Unset
    /\ x_next = Unset
    /\ seedLen = Len(x_data)
    /\ n_eval = 0
    /\ MSNotRun
    /\ SEGONotRun
    /\ NBNotRun
    /\ MLNotRun

CallSBO ==
    /\ pc = "INITIALIZED"
    /\ \E point \in Domain :
          crit' = [fn |-> "SBO", point |-> point, value |-> SBO(gpr, point)]
    /\ UNCHANGED <<pc, egoVars, msVars, segoVars, nbVars>>
    /\ UNCHANGED <<trainVars, splitVars, covVars, mnbVars>>

CallUCB ==
    /\ pc = "INITIALIZED"
    /\ \E point \in Domain :
          crit' = [fn |-> "UCB", point |-> point, value |-> UCB(gpr, point)]
    /\ UNCHANGED <<pc, egoVars, msVars, segoVars, nbVars>>
    /\ UNCHANGED <<trainVars, splitVars, covVars, mnbVars>>

NextCrit == CallSBO \/ CallUCB

SpecCrit == InitCrit /\ [][NextCrit]_vars

(***************************************************************************)
(* The loop as the notebook's set-up cell configures it: three seed points *)
(* (x_data = [0, 7, 25]) and n_iter = 17, against the total budget of      *)
(* evaluations the notebook states (10 points, the initial points          *)
(* included).                                                              *)
(***************************************************************************)
NSeed == 3
NotebookNIter == 17
Budget == 10

\* the seed designs of NSeed points, in increasing order as [0, 7, 25] is
NotebookSeeds ==
    {Xs \in [1..NSeed -> Domain] : \A a, b \in 1..NSeed : a < b => Xs[a] < Xs[b]}

InitNotebook ==
    /\ pc = "INITIALIZED"
    /\ x_data \in NotebookSeeds
    /\ y_data \in [1..Len(x_data) -> Vals]
    /\ n_iter = NotebookNIter
    /\ i = 0
    /\ gpr \in Surrogates(x_data, y_data)
    /\ f_min = Unset
    /\ x_next = Unset
    /\ seedLen = Len(x_data)
    /\ n_eval = 0
    /\ MSNotRun
    /\ SEGONotRun
    /\ NBNotRun
    /\ MLNotRun

\* arg max over the grid of the domain: of the points where the acquisition
\* is maximal, the first of the grid
FirstArgMax(a) == MinOf(ArgMax(a))

AcquireFirst ==
    /\ pc = "FITTING"
    /\ f_min' = FMin(y_data)
    /\ x_next' = FirstArgMax(Acquisition(gpr, f_min'))
    /\ pc' = "ACQUIRING"
    /\ UNCHANGED <<x_data, y_data, n_iter, i, gpr, seedLen>>
    /\ UNCHANGED <<n_eval, otherVars>>

NextNotebook == Fit \/ AcquireFirst \/ Evaluate \/ Terminate

SpecNotebook == InitNotebook /\ [][NextNotebook]_vars

(***************************************************************************)
(* Training by label: the records of each class are selected by their      *)
(* label (column 0), the statistics of a class are those of its records    *)
(* (column 1: the mean), its prior is the share of its records.            *)
(***************************************************************************)
\* bound: number of records
MaxRecords == 3

\* levels of the feature of a record
FeatVals == {1, 2}

\* the slip of copying the males' line: the mask is not changed
rows_of_males(recs, c) == SelectSeq(recs, LAMBDA r : r[1] = 0)

\* data[data[:,0]==c]
rows_of(recs, c) == SelectSeq(recs, LAMBDA r : r[1] = c)

\* np.mean(rows[:,1]); 0/0 (nan) for no rows
mu_of(rows) == IF Len(rows) = 0 THEN <<0, 0>> ELSE Q(Sum1(rows, 2), Len(rows))

\* rows.shape[0]/data.shape[0]
pS_of(rows, recs) == Q(Len(rows), Len(recs))

\* the records loaded (labels of the known classes, at least one record)
InitTrain ==
    /\ pc = "LOADED"
    /\ records \in UNION {[1..n -> Classes \X FeatVals] : n \in 1..MaxRecords}
    /\ model = <<>>
    /\ EGONotRun
    /\ MSNotRun
    /\ SEGONotRun
    /\ NBNotRun
    /\ CritNotRun
    /\ SplitNotRun
    /\ CovNotRun
    /\ MnbNotRun

\* the cell that estimates the parameters of the two classes
TrainCell ==
    /\ pc = "LOADED"
    /\ model' = [c \in Classes |->
                    [rows |-> rows_of(records, c),
                     mu   |-> mu_of(rows_of(records, c)),
                     pS   |-> pS_of(rows_of(records, c), records)]]
    /\ pc' = "TRAINED"
    /\ UNCHANGED <<records, egoVars, msVars, segoVars, nbVars>>
    /\ UNCHANGED <<critVars, splitVars, covVars, mnbVars>>

\* a new data set is loaded
LoadCell ==
    /\ pc = "TRAINED"
    /\ records' \in UNION {[1..n -> Classes \X FeatVals] : n \in 1..MaxRecords}
    /\ model' = <<>>
    /\ pc' = "LOADED"
    /\ UNCHANGED <<egoVars, msVars, segoVars, nbVars>>
    /\ UNCHANGED <<critVars, splitVars, covVars, mnbVars>>

NextTrain == TrainCell \/ LoadCell

SpecTrain == InitTrain /\ [][NextTrain]_vars

(***************************************************************************)
(* shuffle_and_split(X, y, n): the samples and their labels are shuffled   *)
(* together (sklearn.utils.shuffle returns shuffled copies, one            *)
(* permutation for both arrays), then each array is cut at n.              *)
(***************************************************************************)
\* bound: number of samples
MaxSamples == 3

\* levels of a sample
SampleVals == {1, 2}

\* the permutations of 1..N
Perms(N) == {p \in [1..N -> 1..N] : \A a, b \in 1..N : a # b => p[a] # p[b]}

\* the arrays shuffled one after the other, each with a permutation of its own
shuffle_each(Xs, ys) ==
    {<<[k \in 1..Len(Xs) |-> Xs[p[k]]], [k \in 1..Len(ys) |-> ys[q[k]]]>> :
        p \in Perms(Len(Xs)), q \in Perms(Len(Xs))}

\* X0, y0 = shuffle(X, y): the pairs of shuffled copies it can return
shuffle(Xs, ys) ==
    {<<[k \in 1..Len(Xs) |-> Xs[p[k]]], [k \in 1..Len(ys) |-> ys[p[k]]]>> :
        p \in Perms(Len(Xs))}

\* np.split(a, [n]): a[:n] and a[n:]
split(a, n) == <<SubSeq(a, 1, n), SubSeq(a, n + 1, Len(a))>>

\* the results shuffle_and_split(Xs, ys, n) can return
shuffle_and_split(Xs, ys, n) ==
    {[Xtrain |-> split(s[1], n)[1], ytrain |-> split(s[2], n)[1],
      Xtest  |-> split(s[1], n)[2], ytest  |-> split(s[2], n)[2]] :
        s \in shuffle(Xs, ys)}

\* the cell that loads the samples and cuts them at n, in their order
InitSplit ==
    /\ pc = "LOADED"
    /\ \E N \in 0..MaxSamples :
          /\ digits \in [data : [1..N -> SampleVals], target : [1..N -> Classes]]
          /\ split_n \in 0..N
    /\ Xtrain = split(digits.data, split_n)[1]
    /\ Xtest = split(digits.data, split_n)[2]
    /\ ytrain = split(digits.target, split_n)[1]
    /\ ytest = split(digits.target, split_n)[2]
    /\ EGONotRun
    /\ MSNotRun
    /\ SEGONotRun
    /\ NBNotRun
    /\ CritNotRun
    /\ TrainNotRun
    /\ CovNotRun
    /\ MnbNotRun

\* Xtrain, ytrain, Xtest, ytest = shuffle_and_split(X, y, n), as each trial
\* of the cross-validation loop calls it
ShuffleAndSplit ==
    /\ pc \in {"LOADED", "SHUFFLED"}
    /\ \E res \in shuffle_and_split(digits.data, digits.target, split_n) :
          /\ Xtrain' = res.Xtrain
          /\ ytrain' = res.ytrain
          /\ Xtest' = res.Xtest
          /\ ytest' = res.ytest
    /\ pc' = "SHUFFLED"
    /\ UNCHANGED <<digits, split_n, egoVars, msVars, segoVars, nbVars>>
    /\ UNCHANGED <<critVars, trainVars, covVars, mnbVars>>

NextSplit == ShuffleAndSplit

SpecSplit == InitSplit /\ [][NextSplit]_vars

(***************************************************************************)
(* The covariance functions: the squared-exponential kernel                *)
(* k(x, x') = sig^2 exp(-(x - x')^2 / theta^2) between two points, the     *)
(* matrix of the kernel over a list of points, the vector of the kernel    *)
(* between a point and each point of a list.  Kernel values are floats of  *)
(* four digits; the exponent is a fixed-point number.                      *)
(***************************************************************************)
\* bounds: number of points of a list, largest point
MaxPoints == 3
MaxPoint == 2

PointVals == 0..MaxPoint

\* levels of the standard deviation of the kernel
SigVals == {1, 2}

\* the square of the distance forgotten
cov_function_unsquared(point_1, point_2, theta_, sig_) ==
    LET dist == point_1 - point_2
        t    == -((dist * Scale) \div (theta_ * theta_))
    IN  FMul(FNorm(<<sig_ * sig_, 0>>), FExp(t))

\* k_12 = (sig**2) * np.exp(- np.sum(dist / theta**2)), dist = (point_1-point_2)**2
cov_function(point_1, point_2, theta_, sig_) ==
    LET dist == (point_1 - point_2) * (point_1 - point_2)
        t    == -((dist * Scale) \div (theta_ * theta_))
    IN  FMul(FNorm(<<sig_ * sig_, 0>>), FExp(t))

\* K[:,i] = [cov_function(point, point_1) for point_1 in points], for each i
\* and point = points[i]: row j of column i is k(points[i], points[j])
cov_matrix(pts, theta_, sig_) ==
    [j \in 1..Len(pts) |->
        [c \in 1..Len(pts) |-> cov_function(pts[c], pts[j], theta_, sig_)]]

\* the vector of the kernel computed with a standard deviation of 1
cov_vect_unit_sig(point, pts, theta_, sig_) ==
    [j \in 1..Len(pts) |-> cov_function(point, pts[j], theta_, 1)]

\* [cov_function(point, point_1) for point_1 in points]
cov_vect(point, pts, theta_, sig_) ==
    [j \in 1..Len(pts) |-> cov_function(point, pts[j], theta_, sig_)]

\* a list of points and the parameters of the kernel
InitCov ==
    /\ pc = "POINTS"
    /\ points \in UNION {[1..n -> PointVals] : n \in 1..MaxPoints}
    /\ theta \in Thetas
    /\ sig \in SigVals
    /\ K = <<>>
    /\ K_star = <<>>
    /\ K_inv = <<>>
    /\ Y_GP = <<>>
    /\ EGONotRun
    /\ MSNotRun
    /\ SEGONotRun
    /\ NBNotRun
    /\ CritNotRun
    /\ TrainNotRun
    /\ SplitNotRun
    /\ MnbNotRun

\* K = cov_matrix(points, theta, sig)
CovMatrixCell ==
    /\ pc = "POINTS"
    /\ K' = cov_matrix(points, theta, sig)
    /\ pc' = "MATRIX"
    /\ UNCHANGED <<points, theta, sig, K_star, K_inv, Y_GP>>
    /\ UNCHANGED <<egoVars, msVars, segoVars, nbVars, critVars, trainVars, splitVars, mnbVars>>

\* cov_vect(point, points, theta, sig), for each point of the list
CovVectCell ==
    /\ pc = "MATRIX"
    /\ K_star' = [c \in 1..Len(points) |-> cov_vect(points[c], points, theta, sig)]
    /\ pc' = "VECT"
    /\ UNCHANGED <<points, theta, sig, K, K_inv, Y_GP>>
    /\ UNCHANGED <<egoVars, msVars, segoVars, nbVars, critVars, trainVars, splitVars, mnbVars>>

NextCov == CovMatrixCell \/ CovVectCell

SpecCov == InitCov /\ [][NextCov]_vars

(***************************************************************************)
(* The predictor of the Gaussian process:                                  *)
(*    mu(x) = K_*(x) K^-1 y,   sigma(x)^2 = k(x,x) - K_*(x) K^-1 K_*(x)^T   *)
(* with K the covariance matrix of the design and K_*(x) the vector of the *)
(* kernel between x and the points of the design.  The linear algebra is   *)
(* exact, on kernel values kept to two decimals: K^-1 is the adjugate of K *)
(* over its determinant, a prediction is a numerator over that             *)
(* determinant.                                                            *)
(***************************************************************************)
\* the numbers of points of a design
DesignLens == {1, 2}

\* levels of the length scale: theta = [3] in the notebook
LengthScales == {1, 3, 12}

\* the decimals of a kernel value the linear algebra keeps
KDecimals == 2

\* a float as a number of 10^-KDecimals, truncated
KFix(a) ==
    IF a[2] + KDecimals >= 0 THEN a[1] * Pow(10, a[2] + KDecimals)
    ELSE IF a[2] + KDecimals < -4 THEN 0
    ELSE a[1] \div Pow(10, -(a[2] + KDecimals))

RECURSIVE SumSeq(_)
SumSeq(s) == IF s = <<>> THEN 0 ELSE Head(s) + SumSeq(Tail(s))

\* the determinant of the matrix of three rows M without row a and column b,
\* with the sign of the cofactor
Cofactor(M, a, b) ==
    LET r  == IF a = 1 THEN <<2, 3>> ELSE IF a = 2 THEN <<1, 3>> ELSE <<1, 2>>
        c  == IF b = 1 THEN <<2, 3>> ELSE IF b = 2 THEN <<1, 3>> ELSE <<1, 2>>
        mn == M[r[1]][c[1]] * M[r[2]][c[2]] - M[r[1]][c[2]] * M[r[2]][c[1]]
    IN  IF (a + b) % 2 = 0 THEN mn ELSE -mn

\* determinant and adjugate of a matrix of one, two or three rows
Det(M) ==
    IF Len(M) = 1 THEN M[1][1]
    ELSE IF Len(M) = 2 THEN M[1][1] * M[2][2] - M[1][2] * M[2][1]
    ELSE M[1][1] * Cofactor(M, 1, 1) + M[1][2] * Cofactor(M, 1, 2)
         + M[1][3] * Cofactor(M, 1, 3)

Adj(M) ==
    IF Len(M) = 1 THEN << <<1>> >>
    ELSE IF Len(M) = 2 THEN << <<M[2][2], -M[1][2]>>, <<-M[2][1], M[1][1]>> >>
    ELSE [a \in 1..3 |-> [b \in 1..3 |-> Cofactor(M, b, a)]]

\* np.linalg.inv(M): the adjugate over the determinant
inv(M) == [adj |-> Adj(M), det |-> Det(M)]

\* v M w, for the vectors v and w and the matrix M
Bilinear(v, M, w) ==
    SumSeq([j \in 1..Len(v) |-> v[j] * SumSeq([l \in 1..Len(w) |-> M[j][l] * w[l]])])

\* the matrix and the vector of the kernel, in units of 10^-KDecimals
KFixMatrix(pts, theta_, sig_) ==
    LET M == cov_matrix(pts, theta_, sig_)
    IN  [j \in 1..Len(pts) |-> [c \in 1..Len(pts) |-> KFix(M[j][c])]]

KFixVect(point, pts, theta_, sig_) ==
    LET v == cov_vect(point, pts, theta_, sig_)
    IN  [j \in 1..Len(pts) |-> KFix(v[j])]

\* k(x,x) - K_*(x) K^-1 K_*(x)^T, times the determinant of K
raw_variance(x_t, Xs, Kinv, theta_, sig_) ==
    LET k_star == KFixVect(x_t, Xs, theta_, sig_)
        k_xx   == KFix(cov_function(x_t, x_t, theta_, sig_))
    IN  k_xx * Kinv.det - Bilinear(k_star, Kinv.adj, k_star)

\* the predictor without the clamp of the variance
myGPpredict_raw(x_t, Xs, Ys, Kinv, theta_, sig_) ==
    LET k_star == KFixVect(x_t, Xs, theta_, sig_)
    IN  [mean |-> <<Bilinear(k_star, Kinv.adj, Ys), Kinv.det>>,
         variance |-> <<raw_variance(x_t, Xs, Kinv, theta_, sig_), Kinv.det>>]

\* myGPpredict(x_t, x_data, y_data, K_inv, theta, sig): the mean and the
\* variance at x_t, each a numerator over the determinant of K; a variance
\* below zero is returned as 0
myGPpredict(x_t, Xs, Ys, Kinv, theta_, sig_) ==
    LET k_star == KFixVect(x_t, Xs, theta_, sig_)
        v      == raw_variance(x_t, Xs, Kinv, theta_, sig_)
    IN  [mean |-> <<Bilinear(k_star, Kinv.adj, Ys), Kinv.det>>,
         variance |-> <<IF v < 0 THEN 0 ELSE v, Kinv.det>>]

\* a design, its observed values and the parameters of the kernel
InitGP ==
    /\ pc = "DATA"
    /\ x_data \in UNION {[1..n -> PointVals] : n \in DesignLens}
    /\ y_data \in [1..Len(x_data) -> Vals]
    /\ theta \in LengthScales
    /\ sig \in SigVals
    /\ points = <<>>
    /\ K = <<>>
    /\ K_star = <<>>
    /\ K_inv = <<>>
    /\ Y_GP = <<>>
    /\ n_iter = 0
    /\ i = 0
    /\ gpr = "none"
    /\ f_min = Unset
    /\ x_next = Unset
    /\ seedLen = Len(x_data)
    /\ n_eval = 0
    /\ MSNotRun
    /\ SEGONotRun
    /\ NBNotRun
    /\ CritNotRun
    /\ TrainNotRun
    /\ SplitNotRun
    /\ MnbNotRun

\* K = cov_matrix(x_data, theta, sig); K_inv = np.linalg.inv(K)
InvertCell ==
    /\ pc = "DATA"
    /\ K' = cov_matrix(x_data, theta, sig)
    /\ IF Det(KFixMatrix(x_data, theta, sig)) = 0
       THEN /\ pc' = "SINGULAR"
            /\ K_inv' = K_inv
       ELSE /\ pc' = "INVERTED"
            /\ K_inv' = inv(KFixMatrix(x_data, theta, sig))
    /\ UNCHANGED <<points, theta, sig, K_star, Y_GP>>
    /\ UNCHANGED <<egoVars, msVars, segoVars, nbVars, critVars, trainVars, splitVars, mnbVars>>

\* Y_GP_plot = [myGPpredict(x_t, x_data, y_data, K_inv, theta, sig) for x_t in X_plot]
PredictCell ==
    /\ pc = "INVERTED"
    /\ Y_GP' = [x_t \in PointVals |-> myGPpredict(x_t, x_data, y_data, K_inv, theta, sig)]
    /\ pc' = "PREDICTED"
    /\ UNCHANGED <<points, theta, sig, K, K_star, K_inv>>
    /\ UNCHANGED <<egoVars, msVars, segoVars, nbVars, critVars, trainVars, splitVars, mnbVars>>

NextGP == InvertCell \/ PredictCell

SpecGP == InitGP /\ [][NextGP]_vars

(***************************************************************************)
(* The count-based classifier: spam_nbc = MultinomialNB() is built with    *)
(* the library's default smoothing (alpha = 1), fit on the training        *)
(* documents and applied to an input.  Fit counts, for each class, the     *)
(* documents and the occurrences of each word; the likelihood of word f in *)
(* class c is (N_cf + alpha) / (N_c + alpha * number of words); the score  *)
(* of class c for the input x is prior(c) * prod_f likelihood(f, c)^x_f.   *)
(***************************************************************************)
\* bound: number of training documents
MaxDocs == 2

\* the words of the vocabulary (the columns of a document)
Words == {1, 2}

\* levels of the count of a word in an input
WordCounts == {0, 1, 2}

\* MultinomialNB(): the smoothing parameter of the default constructor
alpha == 1

\* the documents of the training set: each has a word at least
TrainDocs == {d \in [Words -> 0..1] : \E f \in Words : d[f] > 0}

\* the number of occurrences of word f in the documents of class c
feature_count(Xs, ys, c, f) ==
    SumSeq([k \in 1..Len(Xs) |-> IF ys[k] = c THEN Xs[k][f] ELSE 0])

\* spam_nbc.fit(Xtrain, ytrain)
fit(Xs, ys) ==
    LET cls == {ys[k] : k \in 1..Len(ys)}
    IN  [classes_       |-> cls,
         class_count_   |-> [c \in cls |-> Cardinality({k \in 1..Len(ys) : ys[k] = c})],
         feature_count_ |-> [c \in cls |-> [f \in Words |-> feature_count(Xs, ys, c, f)]]]

\* the likelihood without smoothing: the share of the word in the class
feature_prob_unsmoothed(nbc, c, f) ==
    LET N_c == SumSeq([w \in Words |-> nbc.feature_count_[c][w]])
    IN  Q(nbc.feature_count_[c][f], N_c)

\* the likelihood of word f in class c
feature_prob(nbc, c, f) ==
    LET N_c == SumSeq([w \in Words |-> nbc.feature_count_[c][w]])
    IN  Q(nbc.feature_count_[c][f] + alpha, N_c + alpha * Cardinality(Words))

\* the rational a to the power e
RECURSIVE RPow(_, _)
RPow(a, e) == IF e = 0 THEN <<1, 1>> ELSE RMul(a, RPow(a, e - 1))

RECURSIVE RProd(_)
\* the product of the rationals of a sequence
RProd(s) ==
    IF s = <<>> THEN <<1, 1>>
    ELSE RMul(Head(s), RProd(Tail(s)))

\* the score of class c for the input x: prior times likelihoods
mnb_score(nbc, x, c) ==
    LET n     == SumSeq([k \in 1..2 |-> IF (k - 1) \in nbc.classes_
                                         THEN nbc.class_count_[k - 1] ELSE 0])
        prior == Q(nbc.class_count_[c], n)
        lik_  == RProd([f \in Words |-> RPow(feature_prob(nbc, c, f), x[f])])
    IN  RMul(prior, lik_)

\* the sum of the scores of the classes
mnb_total(nbc, x) ==
    LET sc == [k \in 1..2 |-> IF (k - 1) \in nbc.classes_
                              THEN mnb_score(nbc, x, k - 1) ELSE <<0, 1>>]
    IN  RAdd(sc[1], sc[2])

\* predict_proba: score(c) / sum of the scores; 0/0 when the sum is 0
mnb_proba(nbc, x, c) ==
    LET s == mnb_score(nbc, x, c)
        t == mnb_total(nbc, x)
    IN  IF t[1] = 0 THEN <<0, 0>> ELSE RMul(Q(s[1], t[1]), Q(t[2], s[2]))

\* the training documents and their labels, after the split
InitMNB ==
    /\ pc = "SPLIT"
    /\ \E n \in 1..MaxDocs :
          /\ Xtrain \in [1..n -> TrainDocs]
          /\ ytrain \in [1..n -> Classes]
    /\ digits = <<>>
    /\ split_n = Len(Xtrain)
    /\ Xtest = <<>>
    /\ ytest = <<>>
    /\ MnbNotRun
    /\ EGONotRun
    /\ MSNotRun
    /\ SEGONotRun
    /\ NBNotRun
    /\ CritNotRun
    /\ TrainNotRun
    /\ CovNotRun

\* spam_nbc = MultinomialNB(); spam_nbc.fit(Xtrain, ytrain)
FitMNB ==
    /\ pc = "SPLIT"
    /\ spam_nbc' = fit(Xtrain, ytrain)
    /\ pc' = "FITTED"
    /\ UNCHANGED <<spam_x, spam_score, splitVars>>
    /\ UNCHANGED <<egoVars, msVars, segoVars, nbVars, critVars, trainVars, covVars>>

\* the classifier applied to an input (as spam_nbc.score does for each test document)
ScoreMNB ==
    /\ pc \in {"FITTED", "MNB_SCORED"}
    /\ spam_x' \in [Words -> WordCounts]
    /\ spam_score' = [c \in spam_nbc.classes_ |->
                         [score |-> mnb_score(spam_nbc, spam_x', c),
                          proba |-> mnb_proba(spam_nbc, spam_x', c)]]
    /\ pc' = "MNB_SCORED"
    /\ UNCHANGED <<spam_nbc, splitVars>>
    /\ UNCHANGED <<egoVars, msVars, segoVars, nbVars, critVars, trainVars, covVars>>

NextMNB == FitMNB \/ ScoreMNB

SpecMNB == InitMNB /\ [][NextMNB]_vars

(***************************************************************************)
(* The first iteration of the loop on the notebook's scenario: the         *)
(* objective fun(x) = (x - 3.5) sin((x - 3.5) / pi) on [0, 25], the seed   *)
(* x_data = [0, 7, 25].  The domain is the grid of the integers of         *)
(* [0, 25]; values of the objective and predictions are in tenths.  The    *)
(* surrogate is a Gaussian process with the squared-exponential kernel,    *)
(* trained on the design: the length scale the training ends at is any of  *)
(* ScenThetas, the standard deviation of the kernel is 1.                  *)
(***************************************************************************)
XMax == 25

Grid == 0..XMax

NotebookSeed == <<0, 7, 25>>

\* the length scales a training of the surrogate can end at
ScenThetas == 1..12

\* np.pi, in units of 10^-4
PiFix == 31416

RECURSIVE SinTerms(_, _, _)
\* the terms of the series of the sine after the term of degree j - 1
SinTerms(term, r, j) ==
    IF j > 12 THEN 0
    ELSE LET t == -((((term * r) \div Mant) * r) \div Mant) \div (j * (j + 1))
         IN  t + SinTerms(t, r, j + 2)

RECURSIVE SinFix(_)
\* np.sin(a), a and the result in units of 10^-4
SinFix(a) ==
    LET b == a % (2 * PiFix)
    IN  IF b > PiFix THEN -SinFix(b - PiFix)
        ELSE IF b > PiFix \div 2 THEN SinFix(PiFix - b)
        ELSE b + SinTerms(b, b, 2)

\* fun(point) = (point-3.5)*np.sin((point-3.5)/np.pi), in tenths
fun_fix(point) ==
    LET arg == ((2 * point - 7) * 5000000) \div (PiFix \div 10)
    IN  ((2 * point - 7) * SinFix(arg)) \div 2000

\* the integer part of the square root
ISqrt(n) == CHOOSE r \in 0..n : r * r <= n /\ (r + 1) * (r + 1) > n

\* gpr.train() on (Xs, Ys) with the length scale th: the training set, the
\* predicted mean and the predicted standard deviation at each point of the grid
KrgSurrogate(Xs, Ys, th) ==
    LET Kinv == inv(KFixMatrix(Xs, th, 1))
    IN  [X |-> Xs, Y |-> Ys,
         mu    |-> [x \in Grid |->
                      LET p == myGPpredict(x, Xs, Ys, Kinv, th, 1).mean
                      IN  p[1] \div p[2]],
         sigma |-> [x \in Grid |->
                      LET p == myGPpredict(x, Xs, Ys, Kinv, th, 1).variance
                      IN  ISqrt(p[1] \div p[2])]]

\* the predicted mean taken for the criterion
ScenMean(mod, fmin) == [x \in Grid |-> mod.mu[x]]

\* EI(mod, f_min) at each point of the grid
ScenAcquisition(mod, fmin) == [x \in Grid |-> EI(fmin, mod.mu[x], mod.sigma[x])]

\* the set-up cell: x_data = [0, 7, 25], y_data = fun(x_data), n_iter = 17
InitScen ==
    /\ pc = "INITIALIZED"
    /\ x_data = NotebookSeed
    /\ y_data = [k \in 1..Len(NotebookSeed) |-> fun_fix(NotebookSeed[k])]
    /\ n_iter = NotebookNIter
    /\ i = 0
    /\ gpr = "none"
    /\ f_min = Unset
    /\ x_next = Unset
    /\ seedLen = Len(NotebookSeed)
    /\ n_eval = 0
    /\ MSNotRun
    /\ SEGONotRun
    /\ NBNotRun
    /\ MLNotRun

\* mod = model(X, Y), first iteration
ScenFit ==
    /\ pc = "INITIALIZED"
    /\ LoopCond
    /\ \E th \in ScenThetas :
          /\ theta' = th
          /\ gpr' = KrgSurrogate(x_data, y_data, th)
    /\ pc' = "FITTING"
    /\ UNCHANGED <<x_data, y_data, n_iter, i, f_min, x_next, seedLen, n_eval>>
    /\ UNCHANGED <<points, sig, K, K_star, K_inv, Y_GP>>
    /\ UNCHANGED <<msVars, segoVars, nbVars, critVars, trainVars, splitVars, mnbVars>>

\* f_min = min Y;  x_{i+1} = arg max EI(mod, f_min) over the grid
ScenAcquire ==
    /\ pc = "FITTING"
    /\ f_min' = FMin(y_data)
    /\ x_next' \in ArgMaxOver(Grid, ScenAcquisition(gpr, f_min'))
    /\ pc' = "ACQUIRING"
    /\ UNCHANGED <<x_data, y_data, n_iter, i, gpr, seedLen, n_eval, otherVars>>

\* y_{i+1} = F(x_{i+1});  X = [X, x_{i+1}];  Y = [Y, y_{i+1}];  i = i + 1
ScenEvaluate ==
    /\ pc = "ACQUIRING"
    /\ i = 0
    /\ x_data' = Extend(x_data, x_next)
    /\ y_data' = Extend(y_data, fun_fix(x_next))
    /\ n_eval' = n_eval + 1
    /\ i' = i + 1
    /\ pc' = "EVALUATING"
    /\ UNCHANGED <<n_iter, gpr, f_min, x_next, seedLen, otherVars>>

NextScen == ScenFit \/ ScenAcquire \/ ScenEvaluate

SpecScen == InitScen /\ [][NextScen]_vars

(***************************************************************************)
(*                              Properties                                 *)
(***************************************************************************)

\* C1: a run with budget n_iter, from any non-empty seed, ends with exactly
\* n_iter points more than the seed (one x and one y per iteration).
C1_ExactlyNIterPoints ==
    pc = "TERMINATED" =>
        /\ Len(x_data) = seedLen + n_iter
        /\ Len(y_data) = seedLen + n_iter

C1_Witness ==
    /\ pc = "TERMINATED"
    /\ n_iter >= 2
    /\ seedLen >= 2
    /\ Len(x_data) = seedLen + n_iter

\* C2: the running minimum of the observed values never increases from one
\* step to the next, whatever value the objective returns.
C2_RunningMinNonIncreasing ==
    [][\A m \in Range(y_data) :
          (\A v \in Range(y_data) : m <= v) =>
              \E w \in Range(y_data') : w <= m]_vars

C2_Witness ==
    /\ Len(y_data) >= seedLen + 2
    /\ \A k \in 1..seedLen : y_data[seedLen + 1] < y_data[k]
    /\ y_data[Len(y_data)] > y_data[seedLen + 1]

\* C3: every step leaves the design unchanged or appends exactly one pair at
\* its end; no pair is removed, reordered or overwritten.
C3_DesignOnlyGrows ==
    [][\/ /\ x_data' = x_data
          /\ y_data' = y_data
       \/ /\ Len(x_data') = Len(x_data) + 1
          /\ Len(y_data') = Len(y_data) + 1
          /\ \A k \in 1..Len(x_data) : x_data'[k] = x_data[k]
          /\ \A k \in 1..Len(y_data) : y_data'[k] = y_data[k]]_vars

C3_Witness ==
    /\ Len(x_data) = seedLen + 2
    /\ Len(y_data) = seedLen + 2
    /\ x_data[Len(x_data)] # x_data[1]

\* C4: in every reachable state the input points of the design are pairwise
\* distinct (the selected point is never a point already in the design).
C4_PointsDistinct == Distinct(x_data)

\* C5: the loop's states follow INITIALIZED, then FITTING, ACQUIRING,
\* EVALUATING repeatedly, then TERMINATED: ACQUIRING only from FITTING,
\* EVALUATING only from ACQUIRING, FITTING only from INITIALIZED or
\* EVALUATING, and TERMINATED is never left.
C5_StateOrder ==
    [][/\ pc' = "ACQUIRING" => pc = "FITTING"
       /\ pc' = "EVALUATING" => pc = "ACQUIRING"
       /\ pc' = "FITTING" => pc \in {"INITIALIZED", "EVALUATING"}
       /\ pc' = "TERMINATED" => pc \in {"INITIALIZED", "EVALUATING"}
       /\ pc' # "INITIALIZED"
       /\ pc # "TERMINATED"]_vars

C5_Witness ==
    /\ pc = "TERMINATED"
    /\ i >= 2

\* C6: whenever the surrogate is used (acquisition, or inspection of the
\* result after the run has terminated) it was fit on the whole current design.
C6_SurrogateFitOnCurrentDesign ==
    pc \in {"ACQUIRING", "TERMINATED"} =>
        /\ gpr.X = x_data
        /\ gpr.Y = y_data

\* C7: for every budget n_iter >= 0 the loop eventually reaches TERMINATED,
\* and only with the iteration counter at n_iter (no convergence test).
C7_TerminatesOnBudget ==
    /\ <>(pc = "TERMINATED")
    /\ [](pc = "TERMINATED" => i = n_iter)

C7_Witness ==
    /\ pc = "TERMINATED"
    /\ i = n_iter
    /\ n_iter >= 2
    /\ \A k \in 1..seedLen : y_data[seedLen + 1] >= y_data[k]

\* C8: the point selected in ACQUIRING is a point of the domain where the
\* acquisition function, computed from the surrogate fit at selection time,
\* is maximal over the domain.
C8_SelectedPointMaximisesAcquisition ==
    pc = "ACQUIRING" =>
        /\ x_next \in Domain
        /\ \A x \in Domain :
              EI(f_min, gpr.mu[x], gpr.sigma[x])
                  <= EI(f_min, gpr.mu[x_next], gpr.sigma[x_next])

C8_Witness ==
    /\ pc = "ACQUIRING"
    /\ \E x, z \in Domain :
          /\ 0 < EI(f_min, gpr.mu[x], gpr.sigma[x])
          /\ EI(f_min, gpr.mu[x], gpr.sigma[x]) < EI(f_min, gpr.mu[z], gpr.sigma[z])
          /\ EI(f_min, gpr.mu[z], gpr.sigma[z])
                 = EI(f_min, gpr.mu[x_next], gpr.sigma[x_next])

\* C9: the f_min used by Expected Improvement, and the f_min returned when the
\* loop ends, is the minimum of all observed values of the design at that
\* moment, seed and most recent observation included.
C9_FMinIsCurrentMinimum ==
    pc \in {"ACQUIRING", "TERMINATED"} =>
        /\ \A k \in 1..Len(y_data) : f_min <= y_data[k]
        /\ \E k \in 1..Len(y_data) : f_min = y_data[k]

C9_Witness ==
    /\ pc = "TERMINATED"
    /\ Len(y_data) > seedLen
    /\ f_min = y_data[Len(y_data)]
    /\ \A k \in 1..(Len(y_data) - 1) : y_data[k] > f_min

\* C10: Expected Improvement at a point where the predicted standard deviation
\* is zero is 0, whatever f_min and the predicted mean are.
C10_EIZeroAtZeroSigma ==
    pc = "ACQUIRING" =>
        \A x \in Domain :
            gpr.sigma[x] = 0 => Acquisition(gpr, f_min)[x] = 0

C10_Witness ==
    /\ pc = "ACQUIRING"
    /\ \E x \in Domain : gpr.sigma[x] = 0 /\ gpr.mu[x] < f_min
    /\ \E x \in Domain : gpr.sigma[x] = 0 /\ gpr.mu[x] = f_min
    /\ \E x \in Domain : gpr.sigma[x] > 0

\* C11: when in ACQUIRING no candidate has an acquisition value above the
\* negligible threshold (here: above 0), the loop stops with an explicit
\* outcome and the objective is not evaluated at such a candidate: an
\* evaluation only follows a selection where some candidate had a positive
\* acquisition value (surrogate and f_min are those of the selection).
C11_NoEvaluationOnStagnation ==
    pc = "EVALUATING" =>
        \E x \in Domain : Acquisition(gpr, f_min)[x] > 0

\* C13: the multi-start selection keeps a run that reported success and whose
\* objective is the lowest among the successful runs; a failed run is never
\* kept, also when its objective is lower than that of every successful run.
C13_BestSuccessfulRunKept ==
    pc = "SELECTED" =>
        /\ opt.success
        /\ \E k \in 1..Len(opt_all) : opt_all[k] = opt
        /\ \A k \in 1..Len(opt_all) :
              opt_all[k].success => opt.fun <= opt_all[k].fun
        /\ theta_et = opt.x

C13_Witness ==
    /\ pc = "SELECTED"
    /\ \E k \in 1..Len(opt_all) :
          ~opt_all[k].success /\ opt_all[k].fun < opt.fun
    /\ \E k \in 1..Len(opt_all) :
          opt_all[k].success /\ opt_all[k].fun > opt.fun

\* C14: when every one of the multi-start optimizations failed, the selection
\* ends in an error and neither a result nor a theta is kept.
C14_AllFailedIsFatal ==
    (/\ pc \in {"SELECTED", "ERROR"}
     /\ \A k \in 1..Len(opt_all) : ~opt_all[k].success) =>
        /\ pc = "ERROR"
        /\ opt = "unset"
        /\ theta_et = "unset"

C14_Witness ==
    /\ pc = "ERROR"
    /\ Len(opt_all) = NStarts
    /\ \A k \in 1..Len(opt_all) : ~opt_all[k].success
    /\ theta_et = "unset"

\* C15: a run does not start from an empty design: the fit of the set-up
\* cell is only reached with a seed of at least one (point, value) pair, so
\* that INITIALIZED and every later state hold at least one pair (an empty
\* seed is rejected before any fit).
C15_EmptySeedRejected ==
    pc # "SEEDED" =>
        /\ Len(x_data) >= 1
        /\ Len(y_data) >= 1

\* C12: in the constrained loop every point selected in ACQUIRING, and then
\* evaluated and appended, is one where the constraint surrogate's predicted
\* mean (as fit when the point was selected) is >= 0, also when a point
\* predicted infeasible has the highest acquisition value of the domain.
C12_SelectedPointPredictedFeasible ==
    /\ pc \in {"ACQUIRING", "EVALUATING"} =>
          /\ gpr_con.X = x_data \/ pc = "EVALUATING"
          /\ gpr_con.mu[x_next] >= 0
    /\ pc = "EVALUATING" => x_data[Len(x_data)] = x_next

C12_Witness ==
    /\ pc = "EVALUATING"
    /\ x_data[Len(x_data)] = x_next
    /\ \E x \in Domain :
          /\ gpr_con.mu[x] < 0
          /\ \A z \in Domain \ {x} :
                EI(f_min, gpr.mu[z], gpr.sigma[z]) < EI(f_min, gpr.mu[x], gpr.sigma[x])

\* C16: a run that starts after another begins from its own seed and from
\* newly built surrogates trained on that seed, and no step of the later run
\* changes the design or the surrogate the earlier run left.
C16_RunsShareNoState ==
    [][/\ ego_run' = ego_run
       /\ (pc = "TERMINATED" /\ pc' = "INITIALIZED") =>
             /\ x_data' \in SeedPoints
             /\ Len(y_data') = Len(x_data')
             /\ seedLen' = Len(x_data')
             /\ i' = 0
             /\ gpr'.X = x_data' /\ gpr'.Y = y_data'
             /\ gpr_con'.X = x_data' /\ gpr_con'.Y = y_data_con']_vars

C16_Witness ==
    /\ pc = "TERMINATED"
    /\ Len(y_data_con) > 0
    /\ i >= 2
    /\ ego_run.x_data = <<1, 0>>
    /\ ego_run.gpr = EgoLeftGpr
    /\ x_data # ego_run.x_data
    /\ gpr # ego_run.gpr

\* C17: no step is retried: in a run of the multi-start cells each initial
\* guess has been optimized once when its turn has come (and never again, a
\* failure included), and in a run of the loop the objective has been
\* evaluated once per iteration made, n_iter times in all when the loop ends,
\* also when a selected point was one of the design already.
C17_NoStepRetried ==
    /\ pc \in {"INITIALIZED", "FITTING", "ACQUIRING", "EVALUATING", "TERMINATED"} =>
          /\ n_eval = i
          /\ n_eval = Len(y_data) - seedLen
    /\ pc = "TERMINATED" => n_eval = n_iter
    /\ pc \in {"OPTIMIZING", "SELECTED", "ERROR"} =>
          \A k \in 1..NStarts : n_opt[k] = (IF k <= Len(opt_all) THEN 1 ELSE 0)
    /\ pc \in {"SELECTED", "ERROR"} => Len(opt_all) = NStarts

C17_Witness ==
    /\ pc = "TERMINATED"
    /\ n_iter >= 2
    /\ n_eval = n_iter
    /\ ~Distinct(x_data)

\* C18: whenever at least one class has a non-zero score, the normalised
\* scores (score of the class divided by the sum of the scores of all
\* classes) sum to 1 over the classes and each lies in [0, 1].
C18_PosteriorsSumToOne ==
    (/\ pc \in {"SCORED", "LOG_SCORED"}
     /\ \E c \in Classes : score[c][1] # 0) =>
        /\ RAdd(proba[0], proba[1]) = Q(1, 1)
        /\ \A c \in Classes : RLeq(Q(0, 1), proba[c]) /\ RLeq(proba[c], Q(1, 1))

C18_Witness ==
    /\ pc = "SCORED"
    /\ n_class[0] # n_class[1]
    /\ \A c \in Classes : score[c][1] # 0
    /\ proba[0] # proba[1]
    /\ RAdd(proba[0], proba[1]) = Q(1, 1)

\* C19: for a class whose product score is not zero the log score (sum of
\* the logarithms of the prior and of the densities) is the logarithm of the
\* product score; when no product score is zero the classes of highest log
\* score are the classes of highest product score and of highest normalised
\* score.
C19_LogScoreIsLogOfScore ==
    pc = "LOG_SCORED" =>
        /\ \A c \in Classes : score[c][1] # 0 => log_score[c] = Log(score[c])
        /\ (\A c \in Classes : score[c][1] # 0) =>
              /\ ArgMaxLogScore(log_score) = ArgMaxScore(score)
              /\ ArgMaxLogScore(log_score) = ArgMaxScore(proba)

C19_Witness ==
    /\ pc = "LOG_SCORED"
    /\ \A c \in Classes : score[c][1] # 0
    /\ n_class[0] > n_class[1]
    /\ ArgMaxLogScore(log_score) = {1}
    /\ ArgMaxScore(score) = {1}
    /\ log_score[1] = Log(score[1])

\* C20: on the notebook's nine records and its input (H = 1.81, W = 59,
\* F = 21) class 1 has a strictly higher score, log score and normalised
\* score than class 0, and the hand-written scorer (the class of highest
\* score) and the library's GaussianNB both predict class 1.
C20_NotebookInputIsClass1 ==
    xtest = NotebookInput =>
        /\ pc \in {"SCORED", "LOG_SCORED", "PREDICTED"} =>
              /\ FLess(score[0], score[1])
              /\ FLess(proba[0], proba[1])
              /\ {c \in Classes : \A d \in Classes : ~FLess(score[c], score[d])} = {1}
        /\ pc \in {"LOG_SCORED", "PREDICTED"} => log_score[0] < log_score[1]
        /\ pc = "PREDICTED" => prediction = 1

\* the notebook's input scored, with the values the notebook printed:
\* scores 6.98e-10 and 1.216e-3, log scores -21.0826 and -6.7120
C20_Witness ==
    /\ pc = "PREDICTED"
    /\ xtest = NotebookInput
    /\ prediction = 1
    /\ score[0][2] = -13 /\ score[0][1] \in 6950..7010
    /\ score[1][2] = -6 /\ score[1][1] \in 1210..1220
    /\ log_score[0] \in -2108400..-2108100
    /\ log_score[1] \in -671300..-671100
    /\ proba[0][2] = -10 /\ proba[0][1] \in 5700..5780

\* C30: in every state of a constrained run the objective values and the
\* constraint values are those of the points of the design, in the order of
\* the design (one objective value and one constraint value per point, the
\* appended points included), and the two surrogates are fit on the same
\* points, which are the points of the design whenever a surrogate is used.
C30_ObservationsAligned ==
    ~(pc = "TERMINATED" /\ Len(y_data_con) = 0) =>
        /\ Len(y_data) = Len(x_data)
        /\ Len(y_data_con) = Len(x_data)
        /\ \A k \in 1..Len(x_data) : y_data_con[k] = g(x_data[k])
        /\ gpr.X = gpr_con.X
        /\ gpr.Y = SubSeq(y_data, 1, Len(gpr.X))
        /\ gpr_con.Y = SubSeq(y_data_con, 1, Len(gpr_con.X))
        /\ pc \in {"INITIALIZED", "FITTING", "ACQUIRING", "FAILED"} => gpr.X = x_data

C30_Witness ==
    /\ pc = "EVALUATING"
    /\ Len(x_data) >= seedLen + 2
    /\ Len(y_data_con) = Len(x_data)
    /\ Len(y_data) = Len(x_data)
    /\ y_data_con[Len(x_data)] = g(x_next)
    /\ \E k \in 1..Len(x_data) : y_data_con[k] # y_data_con[Len(x_data)]

\* C24: the confidence-bound acquisition returns the predicted mean minus 3
\* times the predicted standard deviation at the point it is called on (no k
\* is passed: 3 is the factor), the surrogate-based acquisition returns the
\* predicted mean there, and a call of either leaves the surrogate and the
\* design as they were.
C24_AcquisitionValues ==
    /\ [](/\ crit.fn = "UCB" =>
                crit.value = gpr.mu[crit.point] - 3 * gpr.sigma[crit.point]
          /\ crit.fn = "SBO" => crit.value = gpr.mu[crit.point])
    /\ [][crit' # crit => /\ gpr' = gpr
                          /\ x_data' = x_data
                          /\ y_data' = y_data]_vars

C24_Witness ==
    /\ crit.fn = "UCB"
    /\ gpr.sigma[crit.point] = 1
    /\ gpr.mu[crit.point] = 1
    /\ crit.value = -2
    /\ gpr.X = x_data

\* C26: a run configured as the notebook's set-up cell configures it never
\* has more than the budget of 10 points in its design (the seed points plus
\* the points the loop added).
C26_WithinBudget == Len(x_data) <= Budget

\* the number of positions of the sequence s that hold v
CountOf(s, v) == Cardinality({k \in 1..Len(s) : s[k] = v})

\* C28: after training, the records of a class are exactly the records that
\* bear its label (each as often as it occurs in the data), its mean is the
\* mean of these, every record is among the records of exactly one class,
\* the prior of a class is the number of its records over the number of all
\* records, and the priors of the classes sum to 1.
C28_PartitionByLabel ==
    pc = "TRAINED" =>
        /\ \A c \in Classes : \A v \in Classes \X FeatVals :
              CountOf(model[c].rows, v) = IF v[1] = c THEN CountOf(records, v) ELSE 0
        /\ \A k \in 1..Len(records) :
              Cardinality({c \in Classes : CountOf(model[c].rows, records[k]) > 0}) = 1
        /\ Len(model[0].rows) + Len(model[1].rows) = Len(records)
        /\ \A c \in Classes :
              /\ model[c].pS[1] * Len(records) =
                    model[c].pS[2] * Cardinality({k \in 1..Len(records) : records[k][1] = c})
              /\ model[c].pS[2] > 0
              /\ \A k \in 1..Len(model[c].rows) : model[c].rows[k][1] = c
              /\ Len(model[c].rows) > 0 =>
                    model[c].mu[1] * Len(model[c].rows) =
                        model[c].mu[2] * Sum1(model[c].rows, 2)
        /\ model[0].pS[1] * model[1].pS[2] + model[1].pS[1] * model[0].pS[2] =
              model[0].pS[2] * model[1].pS[2]

C28_Witness ==
    /\ pc = "TRAINED"
    /\ Len(records) = 3
    /\ records[1][1] = 1 /\ records[2][1] = 0 /\ records[3][1] = 1
    /\ model[0].pS = <<1, 3>>
    /\ model[1].pS = <<2, 3>>
    /\ Len(model[1].rows) = 2

\* C29: after shuffle_and_split(X, y, n) with 0 <= n <= len(X), the training
\* set has n samples and n labels, the test set the other len(X) - n; the
\* training samples followed by the test samples are the input samples in
\* some order, each position of the input used once and each sample with
\* the label it had; and the call leaves X and y as they were.
C29_SplitIsPermutation ==
    /\ [](pc = "SHUFFLED" =>
            /\ Len(Xtrain) = split_n
            /\ Len(ytrain) = split_n
            /\ Len(Xtest) = Len(digits.data) - split_n
            /\ Len(ytest) = Len(digits.data) - split_n
            /\ \E p \in Perms(Len(digits.data)) :
                  \A k \in 1..Len(digits.data) :
                      /\ (Xtrain \o Xtest)[k] = digits.data[p[k]]
                      /\ (ytrain \o ytest)[k] = digits.target[p[k]])
    /\ [][digits' = digits]_vars

C29_Witness ==
    /\ pc = "SHUFFLED"
    /\ digits.data = <<1, 2, 2>>
    /\ digits.target = <<0, 1, 0>>
    /\ split_n = 1
    /\ Xtrain = <<2>>
    /\ ytrain = <<0>>
    /\ Xtest = <<2, 1>>
    /\ ytest = <<1, 0>>

\* C27: the matrix cov_matrix returns is symmetric, each entry of its
\* diagonal is sig^2, and its entry (i, j) is the entry j of the vector
\* cov_vect returns for points[i].
C27_CovMatrixSymmetric ==
    /\ pc \in {"MATRIX", "VECT"} =>
          /\ Len(K) = Len(points)
          /\ \A a, b \in 1..Len(points) : K[a][b] = K[b][a]
          /\ \A a \in 1..Len(points) : K[a][a] = FNorm(<<sig * sig, 0>>)
    /\ pc = "VECT" =>
          \A a, b \in 1..Len(points) : K[a][b] = K_star[a][b]

C27_Witness ==
    /\ pc = "VECT"
    /\ Len(points) = 3
    /\ points[1] # points[2]
    /\ points[2] # points[3]
    /\ sig = 2
    /\ K[1][2] # K[1][3]
    /\ FLess(K[1][2], K[1][1])
    /\ K_star[2][1] = K[1][2]

\* C22: for a design of pairwise distinct points, the mean predicted at each
\* point of the design is the value observed there and the variance
\* predicted there is 0.
C22_InterpolatesDesign ==
    (pc = "PREDICTED" /\ Distinct(x_data)) =>
        \A k \in 1..Len(x_data) :
            /\ Y_GP[x_data[k]].mean[2] # 0
            /\ Y_GP[x_data[k]].mean[1] = y_data[k] * Y_GP[x_data[k]].mean[2]
            /\ Y_GP[x_data[k]].variance[1] = 0

C22_Witness ==
    /\ pc = "PREDICTED"
    /\ Len(x_data) = 2
    /\ x_data[1] # x_data[2]
    /\ y_data = <<1, 0>>
    /\ sig = 2
    /\ theta = 3
    /\ Y_GP[x_data[1]].mean[1] = Y_GP[x_data[1]].mean[2]
    /\ Y_GP[x_data[2]].mean[1] = 0
    /\ \E x \in PointVals : Y_GP[x].variance[1] > 0

\* C23: the variance the predictor returns is never negative, at any point:
\* where k(x,x) - K_*(x) K^-1 K_*(x)^T is below zero, the variance returned
\* is 0, and elsewhere it is that value.
C23_VarianceNotNegative ==
    pc = "PREDICTED" =>
        \A x \in PointVals :
            LET v == raw_variance(x, x_data, K_inv, theta, sig)
            IN  /\ Y_GP[x].variance[2] > 0
                /\ Y_GP[x].variance[1] >= 0
                /\ v < 0 => Y_GP[x].variance[1] = 0
                /\ v >= 0 => Y_GP[x].variance[1] = v

C23_Witness ==
    /\ pc = "PREDICTED"
    /\ \E x \in PointVals :
          /\ raw_variance(x, x_data, K_inv, theta, sig) < 0
          /\ Y_GP[x].variance[1] = 0
          /\ x \notin Range(x_data)

\* C21: the score the count-based classifier gives a class is strictly
\* positive and finite for every input, an input with a word that no
\* training document of the class holds included, and the posterior of each
\* class is defined (not 0/0) and positive.
C21_SmoothedScorePositive ==
    pc = "MNB_SCORED" =>
        \A c \in spam_nbc.classes_ :
            /\ spam_score[c].score[1] > 0
            /\ spam_score[c].score[2] > 0
            /\ spam_score[c].proba[1] > 0
            /\ spam_score[c].proba[2] > 0
            /\ spam_score[c].proba[1] <= spam_score[c].proba[2]

C21_Witness ==
    /\ pc = "MNB_SCORED"
    /\ spam_nbc.classes_ = Classes
    /\ \E c \in Classes : \E f \in Words :
          /\ spam_nbc.feature_count_[c][f] = 0
          /\ spam_x[f] > 0
          /\ spam_score[c].score[1] > 0
          /\ spam_score[c].proba[1] > 0

\* C25: on the notebook's scenario (seed points 0, 7 and 25), the point the
\* first iteration selects is strictly between 0 and 25 and is none of the
\* seed points.
C25_FirstPointInterior ==
    (pc \in {"ACQUIRING", "EVALUATING"} /\ i <= 1) =>
        /\ 0 < x_next
        /\ x_next < XMax
        /\ \A k \in 1..seedLen : x_next # x_data[k]

C25_Witness ==
    /\ pc = "EVALUATING"
    /\ i = 1
    /\ SubSeq(x_data, 1, 3) = <<0, 7, 25>>
    /\ SubSeq(y_data, 1, 3) = <<31, 31, 114>>
    /\ Len(x_data) = 4
    /\ x_data[4] = x_next
    /\ theta = 10
    /\ gpr.sigma[x_next] > 0
    /\ gpr.sigma[7] = 0
    /\ gpr.mu[25] = 114

====
